---- MODULE Spec2Model ----
(***************************************************************************)
(* Model of the lighting fade controller (main/app/fade_controller.c), the *)
(* event transport facade it sends through (main/app/lcc_node.cpp) and the *)
(* tasks that call it (main/ui/ui_common.c).                                *)
(*                                                                         *)
(* Time is the esp_timer clock in whole milliseconds; every duration the   *)
(* callers pass is a whole number of seconds times 1000.                   *)
(***************************************************************************)
EXTENDS Integers, Sequences, FiniteSets, TLC

(***************************************************************************)
(* Program constants                                                       *)
(***************************************************************************)
MAX_SEGMENT_DURATION_SEC == 255

LIGHT_PARAM_RED == 0
LIGHT_PARAM_GREEN == 1
LIGHT_PARAM_BLUE == 2
LIGHT_PARAM_WHITE == 3
LIGHT_PARAM_BRIGHTNESS == 4
LIGHT_PARAM_DURATION == 5

FADE_STATE_IDLE == "IDLE"
FADE_STATE_FADING == "FADING"
FADE_STATE_COMPLETE == "COMPLETE"

ESP_OK == "ESP_OK"
ESP_ERR_INVALID_STATE == "ESP_ERR_INVALID_STATE"
ESP_ERR_INVALID_ARG == "ESP_ERR_INVALID_ARG"
ESP_ERR_NOT_FOUND == "ESP_ERR_NOT_FOUND"

LCC_STATUS_UNINITIALIZED == "UNINITIALIZED"
LCC_STATUS_INITIALIZING == "INITIALIZING"
LCC_STATUS_RUNNING == "RUNNING"
LCC_STATUS_ERROR == "ERROR"

(***************************************************************************)
(* IEEE-754 single precision, as far as interpolate_state needs it.  A     *)
(* positive float is a pair (m, e) standing for m / 2^e with a 24-bit m.   *)
(* All intermediate integers stay below 2^31.                              *)
(***************************************************************************)
Pow2(n) == 2 ^ n

\* number of significant bits of a natural number below 2^20
RECURSIVE NBits(_)
NBits(x) == IF x = 0 THEN 0 ELSE 1 + NBits(x \div 2)

\* (float)a / (float)b for integers 1 <= a <= b < 2^15, rounded to nearest even
F32Div(a, b) ==
    IF a = b THEN [m |-> Pow2(23), e |-> 23]
    ELSE
      LET sh  == CHOOSE i \in 1..15 : a * Pow2(i) >= b /\ a * Pow2(i - 1) < b
          X   == a * Pow2(sh)                  \* X / b is in [1, 2)
          q1  == (X * 4096) \div b
          r1  == (X * 4096) % b
          q2  == (r1 * 2048) \div b
          r2  == (r1 * 2048) % b
          q   == q1 * 2048 + q2                \* floor(X * 2^23 / b)
          up  == IF 2 * r2 > b \/ (2 * r2 = b /\ q % 2 = 1) THEN 1 ELSE 0
      IN  [m |-> q + up, e |-> sh + 23]

\* |d| * p as the exact integer P = H * 4096 + L over the denominator 2^p.e
F32MulExact(d, p) ==
    LET mh == p.m \div 4096
        ml == p.m % 4096
    IN  [H |-> d * mh + (d * ml) \div 4096, L |-> (d * ml) % 4096, e |-> p.e]

\* the product rounded to a 24-bit significand (round to nearest even)
F32Round(P) ==
    LET n   == NBits(P.H) + 12
        t   == IF n > 24 THEN n - 24 ELSE 0
        M0  == P.H * Pow2(12 - t) + P.L \div Pow2(t)
        rem == P.L % Pow2(t)
        up  == IF t > 0 /\ (2 * rem > Pow2(t) \/ (2 * rem = Pow2(t) /\ M0 % 2 = 1))
               THEN 1 ELSE 0
        M   == M0 + up
        Mh  == M \div 4096
        Ml  == M % 4096
    IN  [H |-> Mh * Pow2(t) + (Ml * Pow2(t)) \div 4096,
         L |-> (Ml * Pow2(t)) % 4096, e |-> P.e]

\* (uint8_t) RN(s + sign * P / 2^e): the float sum rounded to nearest even,
\* then truncated toward zero by the conversion to uint8_t
F32AddTrunc(s, neg, P) ==
    LET G   == Pow2(P.e - 12)
        I   == P.H \div G                      \* integer part of |product|
        fh  == P.H % G                         \* fraction = (fh*4096 + L) / 2^e
        fz  == fh = 0 /\ P.L = 0
    IN  IF fz THEN (IF neg THEN s - I ELSE s + I)
        ELSE IF ~neg THEN
          LET A  == s + I
              j  == 25 - NBits(A)              \* half an ulp below A+1 is 2^-j
              c  == P.e - j
              near == /\ c >= 0
                      /\ G - fh <= 17
                      /\ (G - fh) * 4096 - P.L <= Pow2(c)
          IN  IF near THEN A + 1 ELSE A
        ELSE
          LET A  == s - I
              j  == 25 - NBits(A - 1)          \* half an ulp below A is 2^-j
              c  == P.e - j
              near == /\ c >= 0
                      /\ fh <= 16
                      /\ fh * 4096 + P.L <= Pow2(c)
          IN  IF near THEN A ELSE A - 1

\* the product as the add receives it: exact inside a fused multiply-add,
\* rounded to a float otherwise
F32Product(P, fused) == IF fused THEN P ELSE F32Round(P)

\* one channel of interpolate_state: start + (int16_t)(end - start) * progress
\* with progress = (float)num / (float)den; fused tells whether the compiler
\* contracted the multiply and the add into one fused multiply-add
InterpolateChannel(start, end, num, den, fused) ==
    IF end = start THEN start
    ELSE
      LET d == IF end >= start THEN end - start ELSE start - end
      IN  F32AddTrunc(start, end < start,
                      F32Product(F32MulExact(d, F32Div(num, den)), fused)) % 256

(***************************************************************************)
(* Data                                                                     *)
(***************************************************************************)
\* lighting_state_t of a zero-filled structure (memset in init)
ZeroState == [brightness |-> 0, red |-> 0, green |-> 0, blue |-> 0, white |-> 0]

\* the channel values of a lighting state in the order they are sent
Channels(st) == <<st.red, st.green, st.blue, st.white, st.brightness>>

\* scenes the UI and the auto-apply path hand to the controller
SceneA == [brightness |-> 180, red |-> 255, green |-> 120, blue |-> 40, white |-> 0]
SceneB == [brightness |-> 60, red |-> 0, green |-> 255, blue |-> 7, white |-> 25]
Scenes == {SceneA, SceneB}

\* transition durations in seconds (a uint16_t in both callers)
DurationsSec == {0, 600}

\* bounds of the exploration
TimeStepMs == 200000
MaxAdvances == 4
MaxStarts == 1
MaxSessions == 2

\* s_fade = {0}
ZeroFade ==
    [initialized |-> FALSE, state |-> FADE_STATE_IDLE,
     original_start |-> ZeroState, final_target |-> ZeroState,
     total_duration_ms |-> 0,
     segment_target |-> ZeroState, segment_duration_ms |-> 0,
     current_segment |-> 0, total_segments |-> 0,
     fade_start_us |-> 0, segment_start_us |-> 0,
     current |-> ZeroState]

VARIABLES
    s_fade,        \* the static fade_state_internal_t of fade_controller.c
    s_status,      \* lcc_node.cpp s_status: state of the transport
    now,           \* esp_timer_get_time(), in milliseconds
    fp_contract,   \* whether the build fuses the multiply-add of interpolate_state
    progress,      \* state and percent the progress bar timer read last
    last,          \* the latest call: operation, return value, events it sent
    req,           \* the latest start() request, what it found and returned,
                   \* whether it was aborted, whether set_current() was called
                   \* since, which of its segments the transport rejected
    sess,          \* number of start() calls so far
    task,          \* per task: where it is inside the controller call it runs
    bus,           \* the burst on the bus: the events the transport accepted since
                   \* the sender last changed or began a new command set
    s_base_event_id, \* lcc_node.cpp s_base_event_id, as four 16-bit words
    shown,         \* what the receivers are known to show: the target of the
                   \* latest command set the transport accepted in full, or
                   \* the value set_current() has seeded since
    s_state,       \* the module state of screen_timeout.c, with the animation
                   \* LVGL runs on its overlay
    screen_pc,     \* where the main task is inside screen_timeout_tick, the
                   \* LVGL task inside a callback and a caller inside wake()
                   \* or sleep()
    s_screen_timeout_sec, \* lcc_node.cpp s_screen_timeout_sec
    touch,         \* the touch in progress and what the display owes it: the
                   \* display state its first sample found, whether its last
                   \* sample was handed on as pressed, and what has been
                   \* asked of the display module and not yet answered
    stack          \* the OpenMRN stack under lcc_node_init: where the main
                   \* task is inside it, the executor thread, the memory
                   \* space registry and the accesses to it in progress

vars == <<s_fade, s_status, now, fp_contract, progress, last, req, sess, task, bus,
          s_base_event_id, shown, s_state, screen_pc, s_screen_timeout_sec, touch,
          stack>>

(***************************************************************************)
(* Display power state (screen_timeout.c)                                   *)
(***************************************************************************)
SCREEN_STATE_ACTIVE == "ACTIVE"
SCREEN_STATE_FADING_OUT == "FADING_OUT"
SCREEN_STATE_OFF == "OFF"
SCREEN_STATE_FADING_IN == "FADING_IN"

FADE_DURATION_MS == 1000
SCREEN_TIMEOUT_DEFAULT_SEC == 60
SCREEN_TIMEOUT_MIN_SEC == 10
SCREEN_TIMEOUT_MAX_SEC == 3600
DEFAULT_SCREEN_TIMEOUT_SEC == 60

\* s_state after screen_timeout_init at time t; anim is the animation of the
\* overlay that LVGL is running, anim_start the time it was started
ScreenInitialized(timeout_sec, t) ==
    [initialized |-> TRUE, timeout_sec |-> timeout_sec, last_activity_us |-> t,
     state |-> SCREEN_STATE_ACTIVE, pending_wake |-> FALSE,
     backlight |-> TRUE, anim |-> "none", anim_start |-> 0]

\* no task is inside the module: main is the main task in screen_timeout_tick,
\* lvgl the LVGL task in a callback, caller a task in wake() or sleep(), seen
\* what that caller has read of the state, and wake_at the time at which the
\* vTaskDelay of the main loop ends
ScreenIdle == [main |-> "idle", lvgl |-> "idle", caller |-> "idle", seen |-> FALSE,
               wake_at |-> 0]

\* no touch in progress, nothing asked of the display module. began is the
\* display state the first sample of the touch in progress found, pressed
\* whether its last sample was handed to LVGL as pressed; owed tells that
\* notify_activity() was called while Off and no fade-in has begun since,
\* latched that it reached its FADING_OUT case during the present fade-out,
\* via what began the present fade-in, slept that sleep() found Active and
\* neither activity nor a tick has come since, ticked that a tick has
\* evaluated the timer at the present clock value
TouchIdle == [began |-> "none", pressed |-> FALSE, owed |-> FALSE, latched |-> FALSE,
              via |-> "none", slept |-> FALSE, ticked |-> FALSE]

\* no OpenMRN stack yet: pc is where the main task is inside lcc_node_init,
\* executor whether the executor thread runs, announced whether the node has
\* sent Initialization Complete, registry the spaces the memory space registry
\* has an entry for, custom those whose entry is a SyncingFileMemorySpace,
\* inserting the space registry()->insert() is adding on the main task,
\* looking the space the executor is looking up for a query (0: none),
\* served the number of queries answered
StackDown == [pc |-> "none", executor |-> FALSE, announced |-> FALSE,
              registry |-> {}, custom |-> {}, inserting |-> 0, looking |-> 0,
              served |-> 0]

\* start_fade_out at time t
start_fade_out(s, t) ==
    [s EXCEPT !.state = SCREEN_STATE_FADING_OUT, !.pending_wake = FALSE,
              !.anim = "fade_out", !.anim_start = t]

\* start_fade_in at time t
start_fade_in(s, t) ==
    [s EXCEPT !.state = SCREEN_STATE_FADING_IN, !.backlight = TRUE,
              !.anim = "fade_in", !.anim_start = t]

\* the latch is not looked at: the end of the ramp always cuts the power
fade_out_complete_cb_off(s, woke, t) ==
    [s EXCEPT !.backlight = FALSE, !.state = SCREEN_STATE_OFF]

\* fade_out_complete_cb at time t, after its test of pending_wake: woke is
\* what the test has read
fade_out_complete_cb(s, woke, t) ==
    IF woke
    THEN [s EXCEPT !.state = SCREEN_STATE_FADING_IN,
                   !.anim = "fade_in", !.anim_start = t]
    ELSE [s EXCEPT !.backlight = FALSE, !.state = SCREEN_STATE_OFF]

\* fade_in_complete_cb
fade_in_complete_cb(s) == [s EXCEPT !.state = SCREEN_STATE_ACTIVE, !.anim = "none"]

\* screen_timeout_notify_activity at time t, the mutex taken
screen_timeout_notify_activity(s, t) ==
    IF ~s.initialized THEN s
    ELSE [s EXCEPT !.last_activity_us = t,
                   !.pending_wake = @ \/ s.state \in {SCREEN_STATE_OFF, SCREEN_STATE_FADING_OUT}]

\* screen_timeout_is_interactive; taken tells whether it got the mutex
\* within its 10 ms
screen_timeout_is_interactive(s, taken) ==
    IF s.initialized /\ taken THEN s.state = SCREEN_STATE_ACTIVE ELSE TRUE

\* the idle timer evaluated in every state
TickDecisionAnyState(s, t) ==
    IF ~s.initialized THEN "idle"
    ELSE IF s.pending_wake /\ s.state = SCREEN_STATE_OFF THEN "fade_in"
    ELSE IF s.timeout_sec = 0 THEN "idle"
    ELSE IF t - s.last_activity_us >= s.timeout_sec * 1000 THEN "fade_out"
    ELSE "idle"

\* the idle timer evaluated although the timeout is 0
TickDecisionNoDisable(s, t) ==
    IF ~s.initialized THEN "idle"
    ELSE IF s.pending_wake /\ s.state = SCREEN_STATE_OFF THEN "fade_in"
    ELSE IF s.state # SCREEN_STATE_ACTIVE THEN "idle"
    ELSE IF t - s.last_activity_us >= s.timeout_sec * 1000 THEN "fade_out"
    ELSE "idle"

\* what screen_timeout_tick decides under the mutex at time t: to start the
\* fade-in, to start the fade-out, or to return
TickDecision(s, t) ==
    IF ~s.initialized THEN "idle"
    ELSE IF s.pending_wake /\ s.state = SCREEN_STATE_OFF THEN "fade_in"
    ELSE IF s.timeout_sec = 0 THEN "idle"
    ELSE IF s.state # SCREEN_STATE_ACTIVE THEN "idle"
    ELSE IF t - s.last_activity_us >= s.timeout_sec * 1000 THEN "fade_out"
    ELSE "idle"

(***************************************************************************)
(* Event transport facade (lcc_node.cpp)                                    *)
(***************************************************************************)
Event(parameter, value) == [param |-> parameter, value |-> value]

\* A uint64_t is the tuple of its four 16-bit words, the most significant
\* first.  0x0501010122600000
DEFAULT_BASE_EVENT_ID == <<1281, 257, 8800, 0>>

\* 0xFFFFFFFFFFFF0000
BaseEventMask == <<65535, 65535, 65535, 0>>

\* a & b and a | b on words of n bits
RECURSIVE BitAnd(_, _, _)
BitAnd(a, b, n) ==
    IF n = 0 THEN 0
    ELSE 2 * BitAnd(a \div 2, b \div 2, n - 1) + (a % 2) * (b % 2)

RECURSIVE BitOr(_, _, _)
BitOr(a, b, n) ==
    IF n = 0 THEN 0
    ELSE 2 * BitOr(a \div 2, b \div 2, n - 1)
         + (IF a % 2 = 1 \/ b % 2 = 1 THEN 1 ELSE 0)

U64And(a, b) == [i \in 1..4 |-> BitAnd(a[i], b[i], 16)]

U64Or(a, b) == [i \in 1..4 |-> BitOr(a[i], b[i], 16)]

\* (uint64_t)x for a uint8_t x, and (uint64_t)x << 8
U64OfByte(x) == <<0, 0, 0, x>>

U64OfByteShl8(x) == <<0, 0, 0, x * 256>>

\* mutant: the low 16 bits of the base id are not masked off
EventIdUnmasked(base, parameter, value) ==
    U64Or(U64Or(base, U64OfByteShl8(parameter)), U64OfByte(value))

\* the event id lcc_node_send_lighting_event hands to the stack
EventId(base, parameter, value) ==
    U64Or(U64Or(U64And(base, BaseEventMask), U64OfByteShl8(parameter)), U64OfByte(value))

\* return value of lcc_node_send_lighting_event for a transport in status st
lcc_node_send_lighting_event(st, parameter) ==
    IF st # LCC_STATUS_RUNNING THEN ESP_ERR_INVALID_STATE
    ELSE IF parameter > 5 THEN ESP_ERR_INVALID_ARG
    ELSE ESP_OK

\* the event ids lcc_node_send_lighting_event passes to send_event
SentEventIds(st, base, parameter, value) ==
    IF lcc_node_send_lighting_event(st, parameter) = ESP_OK
    THEN <<EventId(base, parameter, value)>>
    ELSE <<>>

(***************************************************************************)
(* fade_controller.c                                                        *)
(***************************************************************************)
interpolate_state(start, end, num, den, fused) ==
    [red        |-> InterpolateChannel(start.red, end.red, num, den, fused),
     green      |-> InterpolateChannel(start.green, end.green, num, den, fused),
     blue       |-> InterpolateChannel(start.blue, end.blue, num, den, fused),
     white      |-> InterpolateChannel(start.white, end.white, num, den, fused),
     brightness |-> InterpolateChannel(start.brightness, end.brightness, num, den, fused)]

\* mutant: the duration event sent before the channel events
CommandSetDurationFirst(target, duration_sec) ==
    << Event(LIGHT_PARAM_DURATION, duration_sec),
       Event(LIGHT_PARAM_RED, target.red),
       Event(LIGHT_PARAM_GREEN, target.green),
       Event(LIGHT_PARAM_BLUE, target.blue),
       Event(LIGHT_PARAM_WHITE, target.white),
       Event(LIGHT_PARAM_BRIGHTNESS, target.brightness) >>

\* the six events of one command set, in the order send_lighting_command
\* hands them to the transport
CommandSet(target, duration_sec) ==
    << Event(LIGHT_PARAM_RED, target.red),
       Event(LIGHT_PARAM_GREEN, target.green),
       Event(LIGHT_PARAM_BLUE, target.blue),
       Event(LIGHT_PARAM_WHITE, target.white),
       Event(LIGHT_PARAM_BRIGHTNESS, target.brightness),
       Event(LIGHT_PARAM_DURATION, duration_sec) >>

\* send_lighting_command when the transport accepts the first n events and
\* rejects the next one (n = 6: all accepted); it returns at the first error
send_lighting_command(target, duration_sec, n) ==
    [ret  |-> IF n = 6 THEN ESP_OK ELSE ESP_ERR_INVALID_STATE,
     sent |-> SubSeq(CommandSet(target, duration_sec), 1, n)]

\* A uint32_t is held as the 32-bit integer with the same bits, so the
\* values from 2^31 on are the negative integers; U32 builds one from its
\* 16-bit halves, U32Hi and U32Lo take it apart
U32(hi, lo) == IF hi < 32768 THEN hi * 65536 + lo ELSE (hi - 65536) * 65536 + lo

U32Hi(v) == (v \div 65536) % 65536

U32Lo(v) == v % 65536

\* a + b in uint32_t arithmetic
U32Add(a, b) ==
    LET lo == U32Lo(a) + U32Lo(b)
    IN  U32((U32Hi(a) + U32Hi(b) + lo \div 65536) % 65536, lo % 65536)

\* a / n in uint32_t arithmetic, for a divisor 0 < n < 32768
U32Div(a, n) ==
    LET r == U32Hi(a) % n
    IN  U32(U32Hi(a) \div n, (r * 65536 + U32Lo(a)) \div n)

\* the largest duration_ms a fade_params_t can hold
UINT32_MAX == U32(65535, 65535)

\* mutant: the segment count rounded the wrong way at exact multiples
SegmentCountPlusOne(duration_ms) ==
    IF duration_ms = 0 THEN 1
    ELSE duration_ms \div (MAX_SEGMENT_DURATION_SEC * 1000) + 1

\* total_segments as fade_controller_start computes it: the sum is a
\* uint32_t and wraps; the division by 255000 is done as a division by 1000
\* and one by 255, which has the same quotient
SegmentCount(duration_ms) ==
    IF duration_ms = 0 THEN 1
    ELSE U32Div(U32Div(U32Add(duration_ms, MAX_SEGMENT_DURATION_SEC * 1000 - 1), 1000),
                MAX_SEGMENT_DURATION_SEC)

\* segment_duration_ms: all segments have equal duration
SegmentDuration(f) == U32Div(f.total_duration_ms, f.total_segments)

\* (uint8_t)(segment_duration_ms / 1000)
DurationSec(segment_duration_ms) == (segment_duration_ms \div 1000) % 256

\* mutant: progress taken at the start of the segment instead of its end
SegmentTargetAtStart(f, seg, fused) ==
    IF seg = 0 THEN f.original_start
    ELSE interpolate_state(f.original_start, f.final_target, seg, f.total_segments, fused)

\* the target of the segment with 0-based index seg
SegmentTarget(f, seg, fused) ==
    interpolate_state(f.original_start, f.final_target, seg + 1, f.total_segments, fused)

\* start_next_segment from the return of send_lighting_command on
SegmentSent(f, cmd) == [f |-> f, ret |-> cmd.ret, sent |-> cmd.sent]

\* start_next_segment from the computed segment target tgt on
SegmentStarted(f, t, n, tgt) ==
    SegmentSent([f EXCEPT !.segment_duration_ms = SegmentDuration(f),
                          !.segment_target = tgt,
                          !.segment_start_us = t],
                send_lighting_command(tgt, DurationSec(SegmentDuration(f)), n))

\* mutant: the session goes straight to IDLE after its last segment
start_next_segment_to_idle(f, t, n, fused) ==
    IF f.current_segment + 1 >= f.total_segments
    THEN [f |-> [f EXCEPT !.current_segment = f.current_segment + 1,
                          !.state = FADE_STATE_IDLE],
          ret |-> ESP_OK, sent |-> <<>>]
    ELSE SegmentStarted([f EXCEPT !.current_segment = f.current_segment + 1], t, n,
                        SegmentTarget(f, f.current_segment + 1, fused))

\* start_next_segment at time t, the transport accepting n events
start_next_segment(f, t, n, fused) ==
    IF f.current_segment + 1 >= f.total_segments
    THEN [f |-> [f EXCEPT !.current_segment = f.current_segment + 1,
                          !.state = FADE_STATE_COMPLETE],
          ret |-> ESP_OK, sent |-> <<>>]
    ELSE SegmentStarted([f EXCEPT !.current_segment = f.current_segment + 1], t, n,
                        SegmentTarget(f, f.current_segment + 1, fused))

\* mutant: a new session starts from the target of the previous one
StartBaselineFinalTarget(f) == f.final_target

\* the baseline a new session starts from
StartBaseline(f) == f.current

\* mutant: a start whose send failed leaves the session armed
StartOutcomeStaysFading(r) ==
    IF r.ret # ESP_OK
    THEN [f |-> r.f, ret |-> r.ret, sent |-> r.sent]
    ELSE [f |-> [r.f EXCEPT !.current = r.f.segment_target], ret |-> ESP_OK, sent |-> r.sent]

\* mutant: current is set to the segment target before the send is tested
StartOutcomeCurrentFirst(r) ==
    IF r.ret # ESP_OK
    THEN [f |-> [r.f EXCEPT !.state = FADE_STATE_IDLE, !.current = r.f.segment_target],
          ret |-> r.ret, sent |-> r.sent]
    ELSE [f |-> [r.f EXCEPT !.current = r.f.segment_target], ret |-> ESP_OK, sent |-> r.sent]

\* fade_controller_start from the return of start_next_segment on
StartOutcome(r) ==
    IF r.ret # ESP_OK
    THEN [f |-> [r.f EXCEPT !.state = FADE_STATE_IDLE], ret |-> r.ret, sent |-> r.sent]
    ELSE [f |-> [r.f EXCEPT !.current = r.f.segment_target], ret |-> ESP_OK, sent |-> r.sent]

\* mutant: start without the test of s_fade.initialized
fade_controller_start_unchecked(f, target, duration_ms, t, n, fused) ==
    StartOutcome(start_next_segment(
        [f EXCEPT !.original_start = f.current,
                  !.final_target = target,
                  !.total_duration_ms = duration_ms,
                  !.total_segments = SegmentCount(duration_ms),
                  !.current_segment = -1,
                  !.fade_start_us = t,
                  !.state = FADE_STATE_FADING], t, n, fused))

\* fade_controller_start with non-NULL params
fade_controller_start(f, target, duration_ms, t, n, fused) ==
    IF ~f.initialized THEN [f |-> f, ret |-> ESP_ERR_INVALID_STATE, sent |-> <<>>]
    ELSE StartOutcome(start_next_segment(
             [f EXCEPT !.original_start = StartBaseline(f),
                       !.final_target = target,
                       !.total_duration_ms = duration_ms,
                       !.total_segments = SegmentCount(duration_ms),
                       !.current_segment = -1,
                       !.fade_start_us = t,
                       !.state = FADE_STATE_FADING], t, n, fused))

\* mutant: an immediate apply that is refused while a fade is running
fade_controller_apply_immediate_when_idle(f, state, t, n, fused) ==
    IF f.state = FADE_STATE_FADING
    THEN [f |-> f, ret |-> ESP_ERR_INVALID_STATE, sent |-> <<>>]
    ELSE fade_controller_start(f, state, 0, t, n, fused)

\* fade_controller_apply_immediate with a non-NULL state
fade_controller_apply_immediate(f, state, t, n, fused) ==
    fade_controller_start(f, state, 0, t, n, fused)

\* whether the current segment is complete at time t
SegmentDue(f, t) == (t - f.segment_start_us) >= f.segment_duration_ms

\* mutant: a tick whose segment send failed gives the session up
TickOutcomeGivesUp(r) ==
    [f    |-> IF r.ret # ESP_OK
              THEN [r.f EXCEPT !.state = FADE_STATE_IDLE]
              ELSE IF r.f.state = FADE_STATE_FADING
              THEN [r.f EXCEPT !.current = r.f.segment_target]
              ELSE r.f,
     ret  |-> r.ret,
     sent |-> r.sent]

\* fade_controller_tick from the return of start_next_segment on
TickOutcome(r) ==
    [f    |-> IF r.f.state = FADE_STATE_FADING
              THEN [r.f EXCEPT !.current = r.f.segment_target]
              ELSE r.f,
     ret  |-> ESP_OK,
     sent |-> r.sent]

\* fade_controller_tick
fade_controller_tick(f, t, n, fused) ==
    IF ~f.initialized THEN [f |-> f, ret |-> ESP_ERR_NOT_FOUND, sent |-> <<>>]
    ELSE IF f.state = FADE_STATE_IDLE THEN [f |-> f, ret |-> ESP_OK, sent |-> <<>>]
    ELSE IF f.state = FADE_STATE_COMPLETE
    THEN [f |-> [f EXCEPT !.state = FADE_STATE_IDLE], ret |-> ESP_OK, sent |-> <<>>]
    ELSE IF SegmentDue(f, t)
    THEN TickOutcome(start_next_segment([f EXCEPT !.current = f.segment_target], t, n, fused))
    ELSE [f |-> f, ret |-> ESP_OK, sent |-> <<>>]

\* mutant: abort that only logs and leaves the state machine running
fade_controller_abort_keeps_state(f) == f

\* mutant: abort that snaps the baseline to the final target
fade_controller_abort_to_target(f) ==
    IF ~f.initialized THEN f
    ELSE [f EXCEPT !.state = FADE_STATE_IDLE, !.current = f.final_target]

\* fade_controller_abort
fade_controller_abort(f) ==
    IF ~f.initialized THEN f ELSE [f EXCEPT !.state = FADE_STATE_IDLE]

\* fade_controller_get_current with a non-NULL state; st is what the
\* caller's buffer held
fade_controller_get_current(f, st) ==
    IF ~f.initialized THEN [state |-> st, ret |-> ESP_ERR_INVALID_STATE]
    ELSE [state |-> f.current, ret |-> ESP_OK]

\* fade_controller_set_current with a non-NULL state
fade_controller_set_current(f, st) ==
    IF ~f.initialized THEN [f |-> f, ret |-> ESP_ERR_INVALID_STATE]
    ELSE [f |-> [f EXCEPT !.current = st], ret |-> ESP_OK]

\* (uint32_t)(elapsed_ms * 100) / total_ms for elapsed_ms < 2^31 and
\* 0 < total_ms < 2^31; the product wraps modulo 2^32 and is kept as
\* hi * 65536 + lo
U32Mul100Div(elapsed_ms, total_ms) ==
    LET eh == elapsed_ms \div 65536
        el == elapsed_ms % 65536
        lo == (100 * el) % 65536
        hi == (100 * eh + (100 * el) \div 65536) % 65536
    IN  IF hi < 32768 THEN (hi * 65536 + lo) \div total_ms
        ELSE LET R2 == hi * 32768 + lo \div 2       \* floor(product / 2)
                 r0 == lo % 2
                 q  == R2 \div total_ms
                 rm == R2 % total_ms
             IN  2 * q + (IF rm >= total_ms - rm - r0 THEN 1 ELSE 0)

\* progress_percent while FADING
FadingPercent(elapsed_ms, total_ms) ==
    IF total_ms > 0
    THEN LET pc == U32Mul100Div(elapsed_ms, total_ms) % 256
         IN  IF pc > 100 THEN 100 ELSE pc
    ELSE 100

\* mutant: the percent taken against the duration of one segment
fade_controller_get_progress_of_segment(f, t) ==
    IF ~f.initialized
    THEN [state |-> FADE_STATE_IDLE, progress_percent |-> 0, elapsed_ms |-> 0,
          total_ms |-> 0, current |-> ZeroState]
    ELSE IF f.state = FADE_STATE_FADING
    THEN LET e0 == t - f.fade_start_us
             e  == IF e0 > f.segment_duration_ms THEN f.segment_duration_ms ELSE e0
         IN  [state |-> f.state, progress_percent |-> FadingPercent(e, f.segment_duration_ms),
              elapsed_ms |-> e, total_ms |-> f.total_duration_ms, current |-> f.final_target]
    ELSE IF f.state = FADE_STATE_COMPLETE
    THEN [state |-> f.state, progress_percent |-> 100, elapsed_ms |-> f.total_duration_ms,
          total_ms |-> f.total_duration_ms, current |-> f.final_target]
    ELSE [state |-> f.state, progress_percent |-> 0, elapsed_ms |-> 0,
          total_ms |-> f.total_duration_ms, current |-> f.final_target]

\* fade_controller_get_progress with a non-NULL progress
fade_controller_get_progress(f, t) ==
    IF ~f.initialized
    THEN [state |-> FADE_STATE_IDLE, progress_percent |-> 0, elapsed_ms |-> 0,
          total_ms |-> 0, current |-> ZeroState]
    ELSE IF f.state = FADE_STATE_FADING
    THEN LET e0 == t - f.fade_start_us
             e  == IF e0 > f.total_duration_ms THEN f.total_duration_ms ELSE e0
         IN  [state |-> f.state, progress_percent |-> FadingPercent(e, f.total_duration_ms),
              elapsed_ms |-> e, total_ms |-> f.total_duration_ms, current |-> f.final_target]
    ELSE IF f.state = FADE_STATE_COMPLETE
    THEN [state |-> f.state, progress_percent |-> 100, elapsed_ms |-> f.total_duration_ms,
          total_ms |-> f.total_duration_ms, current |-> f.final_target]
    ELSE [state |-> f.state, progress_percent |-> 0, elapsed_ms |-> 0,
          total_ms |-> f.total_duration_ms, current |-> f.final_target]

\* the two execution contexts that enter the controller: the LVGL task (UI
\* callbacks) and the lighting task
Tasks == {"ui", "lighting"}

\* a task outside the controller
IdleTask == [pc |-> "idle", op |-> "none", ret |-> ESP_OK, duration_sec |-> 0,
             i |-> 0, sent |-> <<>>]

(***************************************************************************)
(* Steps of the program.  Each call of the controller is one step.         *)
(***************************************************************************)
Step(op, ret, sent) ==
    [op |-> op, ret |-> ret, sent |-> sent, percent |-> 0, current |-> ZeroState]

\* what the caller of a function returning void gets back
NoReturn == "void"

\* how many events of a burst the transport accepts: all six while it is
\* running, none otherwise
Accepts(st) == IF lcc_node_send_lighting_event(st, LIGHT_PARAM_RED) = ESP_OK THEN 6 ELSE 0

\* the lighting values a command set carries
StateOfCommandSet(sent) ==
    [brightness |-> sent[5].value, red |-> sent[1].value, green |-> sent[2].value,
     blue |-> sent[3].value, white |-> sent[4].value]

\* what the receivers show after a call that sent the events sent, when
\* they showed prev before: a command set takes effect with its sixth event
Shown(prev, sent) == IF Len(sent) = 6 THEN StateOfCommandSet(sent) ELSE prev

Init ==
    /\ s_fade = ZeroFade
    /\ s_status \in {LCC_STATUS_RUNNING, LCC_STATUS_ERROR}
    /\ now = 0
    /\ fp_contract = FALSE
    /\ progress = [state |-> FADE_STATE_IDLE, percent |-> 0, sess |-> 0]
    /\ last = Step("boot", ESP_OK, <<>>)
    /\ req = [target |-> ZeroState, duration_ms |-> 0, start |-> ZeroState,
              pre |-> FADE_STATE_IDLE, aborted |-> FALSE, seeded |-> FALSE,
              ret |-> ESP_OK, unsent |-> {}]
    /\ sess = 0
    /\ task = [t \in Tasks |-> IdleTask]
    /\ bus = <<>>
    /\ s_base_event_id = DEFAULT_BASE_EVENT_ID
    /\ shown = ZeroState
    /\ s_state = ScreenInitialized(SCREEN_TIMEOUT_DEFAULT_SEC, 0)
    /\ screen_pc = ScreenIdle
    /\ s_screen_timeout_sec = DEFAULT_SCREEN_TIMEOUT_SEC
    /\ touch = TouchIdle
    /\ stack = StackDown

\* fade_controller_init
FadeInit ==
    /\ s_fade' = IF s_fade.initialized THEN s_fade
                 ELSE [ZeroFade EXCEPT !.initialized = TRUE]
    /\ last' = Step("init", ESP_OK, <<>>)
    /\ UNCHANGED <<s_status, now, fp_contract, progress, req, sess, task, bus,
                   s_base_event_id, shown,
                   s_state, screen_pc, s_screen_timeout_sec, touch, stack>>

\* a caller of fade_controller_start gets r back; base is the baseline the
\* call found
StartReturns(op, target, duration_ms, base, r) ==
    /\ s_fade' = r.f
    /\ last' = Step(op, r.ret, r.sent)
    /\ req' = [target |-> target, duration_ms |-> duration_ms,
               start |-> base, pre |-> s_fade.state, aborted |-> FALSE, seeded |-> FALSE,
               ret |-> r.ret, unsent |-> {}]
    /\ sess' = sess + 1
    /\ shown' = Shown(shown, r.sent)
    /\ UNCHANGED <<s_status, now, fp_contract, progress, task, bus, s_base_event_id,
                   s_state, screen_pc, s_screen_timeout_sec, touch, stack>>

StartWith(op, target, duration_ms) ==
    StartReturns(op, target, duration_ms, s_fade.current,
                 fade_controller_start(s_fade, target, duration_ms, now,
                                       Accepts(s_status), fp_contract))

\* apply_btn_event_cb / auto-apply: fade_controller_start(&params)
Start == \E target \in Scenes, sec \in DurationsSec :
    /\ sess < MaxStarts
    /\ StartWith("start", target, sec * 1000)

\* edit_preview_btn_cb: fade_controller_apply_immediate(&state)
ApplyImmediateWith(target) ==
    StartReturns("apply_immediate", target, 0, s_fade.current,
                 fade_controller_apply_immediate(s_fade, target, now,
                                                 Accepts(s_status), fp_contract))

\* fade_controller_apply_immediate(&state)
ApplyImmediate == \E target \in Scenes :
    /\ sess < MaxStarts
    /\ ApplyImmediateWith(target)

\* the segments of the request whose command set the transport has rejected
\* and not accepted since, after a tick that found f and left r: the tick
\* logs the failure of start_next_segment and returns ESP_OK
Unsent(u, f, r) ==
    IF r.f.state = FADE_STATE_FADING /\ r.f.current_segment # f.current_segment
    THEN IF Len(r.sent) = 6 THEN u \ {r.f.current_segment}
         ELSE u \cup {r.f.current_segment}
    ELSE u

\* what fade_controller_tick leaves when it returns r
TickStores(r) ==
    /\ s_fade' = r.f
    /\ last' = Step("tick", r.ret, r.sent)
    /\ req' = [req EXCEPT !.unsent = Unsent(@, s_fade, r)]
    /\ shown' = Shown(shown, r.sent)
    /\ UNCHANGED <<s_status, fp_contract, progress, sess, bus, s_base_event_id,
                   s_state, screen_pc, s_screen_timeout_sec, touch, stack>>

\* the lighting task gets r back from fade_controller_tick
TickReturns(r) ==
    /\ TickStores(r)
    /\ UNCHANGED task

\* lighting_task: fade_controller_tick() at time t
TickAt(t) ==
    /\ now' = t
    /\ TickReturns(fade_controller_tick(s_fade, t, Accepts(s_status), fp_contract))

\* lighting_task: fade_controller_tick()
Tick == TickAt(now)

\* what a get_progress() call that filled in r leaves in last
ProgressStep(r) == [Step("get_progress", r.state, <<>>) EXCEPT !.percent = r.progress_percent]

\* progress timer: fade_controller_get_progress(&progress)
GetProgress ==
    /\ last' = ProgressStep(fade_controller_get_progress(s_fade, now))
    /\ UNCHANGED <<s_fade, s_status, now, fp_contract, progress, req, sess, task, bus,
                   s_base_event_id, shown,
                   s_state, screen_pc, s_screen_timeout_sec, touch, stack>>

Abort ==
    /\ s_fade' = fade_controller_abort(s_fade)
    /\ last' = Step("abort", NoReturn, <<>>)
    /\ req' = [req EXCEPT !.aborted = @ \/ (s_fade.initialized /\ s_fade.state = FADE_STATE_FADING)]
    /\ UNCHANGED <<s_status, now, fp_contract, progress, sess, task, bus, s_base_event_id, shown,
                   s_state, screen_pc, s_screen_timeout_sec, touch, stack>>

\* boot path: fade_controller_set_current(&initial_state), all zeros
SetCurrent ==
    LET r == fade_controller_set_current(s_fade, ZeroState)
    IN  /\ s_fade' = r.f
        /\ last' = Step("set_current", r.ret, <<>>)
        /\ req' = [req EXCEPT !.seeded = @ \/ r.ret = ESP_OK]
        /\ shown' = IF r.ret = ESP_OK THEN ZeroState ELSE shown
        /\ UNCHANGED <<s_status, now, fp_contract, progress, sess, task, bus, s_base_event_id,
                       s_state, screen_pc, s_screen_timeout_sec, touch, stack>>

\* fade_controller_get_current(&state)
GetCurrent ==
    LET r == fade_controller_get_current(s_fade, ZeroState)
    IN  /\ last' = [Step("get_current", r.ret, <<>>) EXCEPT !.current = r.state]
        /\ UNCHANGED <<s_fade, s_status, now, fp_contract, progress, req, sess, task, bus,
                       s_base_event_id, shown,
                       s_state, screen_pc, s_screen_timeout_sec, touch, stack>>

\* the clock moves on
Advance ==
    /\ now < MaxAdvances * TimeStepMs
    /\ now' = now + TimeStepMs
    /\ UNCHANGED <<s_fade, s_status, fp_contract, progress, last, req, sess, task, bus,
                   s_base_event_id, shown,
                   s_state, screen_pc, s_screen_timeout_sec, touch, stack>>

\* lcc_node_shutdown
LccShutdown ==
    /\ s_status # LCC_STATUS_UNINITIALIZED
    /\ s_status' = LCC_STATUS_UNINITIALIZED
    /\ UNCHANGED <<s_fade, now, fp_contract, progress, last, req, sess, task, bus,
                   s_base_event_id, shown,
                   s_state, screen_pc, s_screen_timeout_sec, touch, stack>>

\* lcc_node_init: ends RUNNING, or ERROR when the stack cannot be brought up
LccInit ==
    /\ s_status = LCC_STATUS_UNINITIALIZED
    /\ s_status' \in {LCC_STATUS_RUNNING, LCC_STATUS_ERROR}
    /\ UNCHANGED <<s_fade, now, fp_contract, progress, last, req, sess, task, bus,
                   s_base_event_id, shown,
                   s_state, screen_pc, s_screen_timeout_sec, touch, stack>>

Next ==
    \/ FadeInit
    \/ Start
    \/ ApplyImmediate
    \/ Tick
    \/ GetProgress
    \/ Abort
    \/ SetCurrent
    \/ GetCurrent
    \/ Advance
    \/ LccShutdown
    \/ LccInit

Spec == Init /\ [][Next]_vars

(***************************************************************************)
(* Fade sessions as the lighting task runs them: the controller is         *)
(* initialised, the transport starts up, and the task's tick is the first *)
(* one at or after the instant the segment in flight is complete.  A session *)
(* may be superseded by a new start or aborted at any segment, and the     *)
(* transport may go down under it.                                         *)
(***************************************************************************)
SessionDurationsSec == {0, 255, 256, 511, 1200}

InitSession ==
    /\ s_fade = [ZeroFade EXCEPT !.initialized = TRUE]
    /\ s_status = LCC_STATUS_RUNNING
    /\ now = 0
    /\ fp_contract \in BOOLEAN
    /\ progress = [state |-> FADE_STATE_IDLE, percent |-> 0, sess |-> 0]
    /\ last = Step("init", ESP_OK, <<>>)
    /\ req = [target |-> ZeroState, duration_ms |-> 0, start |-> ZeroState,
              pre |-> FADE_STATE_IDLE, aborted |-> FALSE, seeded |-> FALSE,
              ret |-> ESP_OK, unsent |-> {}]
    /\ sess = 0
    /\ task = [t \in Tasks |-> IdleTask]
    /\ bus = <<>>
    /\ s_base_event_id = DEFAULT_BASE_EVENT_ID
    /\ shown = ZeroState
    /\ s_state = ScreenInitialized(SCREEN_TIMEOUT_DEFAULT_SEC, 0)
    /\ screen_pc = ScreenIdle
    /\ s_screen_timeout_sec = DEFAULT_SCREEN_TIMEOUT_SEC
    /\ touch = TouchIdle
    /\ stack = StackDown

SessionStart == \E target \in Scenes, sec \in SessionDurationsSec :
    /\ sess < MaxSessions
    /\ StartWith("start", target, sec * 1000)

\* the preview button pressed during a session
SessionApplyImmediate == \E target \in Scenes :
    /\ sess < MaxSessions
    /\ ApplyImmediateWith(target)

\* the instant at which the segment in flight is complete
SegmentEnd(f, t) ==
    LET due == f.segment_start_us + f.segment_duration_ms
    IN  IF f.state = FADE_STATE_FADING /\ due > t THEN due ELSE t

\* lighting_task: the delay until the segment is complete, then the tick
LightingPeriod ==
    /\ s_fade.state # FADE_STATE_IDLE
    /\ TickAt(SegmentEnd(s_fade, now))

NextSession ==
    \/ SessionStart
    \/ SessionApplyImmediate
    \/ LightingPeriod
    \/ Abort
    \/ LccShutdown

SpecSession == InitSession /\ [][NextSession]_vars

(***************************************************************************)
(* The transport facade under any caller of lcc_node_send_lighting_event   *)
(* (two uint8_t arguments) and any configured base event id.               *)
(***************************************************************************)
BaseEventIds == {DEFAULT_BASE_EVENT_ID, <<65535, 32768, 1, 43981>>, <<0, 0, 0, 65535>>}

EventParameters == {0, 1, 2, 3, 4, 5, 6, 255}

EventValues == {0, 1, 128, 255}

\* lcc_node_send_lighting_event(parameter, value)
SendLightingEvent == \E parameter \in EventParameters, value \in EventValues :
    /\ last' = [op |-> "send_lighting_event",
                ret |-> lcc_node_send_lighting_event(s_status, parameter),
                sent |-> SentEventIds(s_status, s_base_event_id, parameter, value),
                percent |-> 0, current |-> ZeroState,
                parameter |-> parameter, value |-> value]
    /\ UNCHANGED <<s_fade, s_status, now, fp_contract, progress, req, sess, task, bus,
                   s_base_event_id, shown,
                   s_state, screen_pc, s_screen_timeout_sec, touch, stack>>

\* the screen timeouts a configuration file can hold: screen_timeout_sec is a
\* Uint16ConfigEntry, read back as stored
ConfigTimeoutsSec == {0, 9, 3601}

\* apply_configuration: the base event id and the screen timeout read from
\* the configuration
ApplyConfiguration == \E base \in BaseEventIds, timeout_sec \in ConfigTimeoutsSec :
    /\ s_base_event_id' = base
    /\ s_screen_timeout_sec' = timeout_sec
    /\ UNCHANGED <<s_fade, s_status, now, fp_contract, progress, last, req, sess, task, bus, shown,
                   s_state, screen_pc, touch, stack>>

NextEvent ==
    \/ SendLightingEvent
    \/ ApplyConfiguration
    \/ LccShutdown
    \/ LccInit

SpecEvent == Init /\ [][NextEvent]_vars

(***************************************************************************)
(* The controller under any caller of its interface: duration_ms is a      *)
(* uint32_t and start() takes every value of it.  The durations tried are  *)
(* the ends of the range and the values on either side of the points where *)
(* the segment count changes its form.                                     *)
(***************************************************************************)
WideDurationsMs ==
    {0, 1, 255000, 255001, U32(32768, 0), U32(65532, 7144), U32(65532, 7145), UINT32_MAX}

\* bounds of the exploration
MaxWideStarts == 2
MaxWideSegments == 2

WideStart == \E target \in Scenes, ms \in WideDurationsMs :
    /\ sess < MaxWideStarts
    /\ StartWith("start", target, ms)

\* lighting_task: the tick at the end of the segment in flight
WideTick ==
    /\ s_fade.state # FADE_STATE_IDLE
    /\ s_fade.current_segment < MaxWideSegments
    /\ TickAt(SegmentEnd(s_fade, now))

NextWide ==
    \/ WideStart
    \/ WideTick

SpecWide == InitSession /\ [][NextWide]_vars

(***************************************************************************)
(* The boot path with a long configured auto-apply duration: app_main      *)
(* seeds the baseline with zeros and starts the fade to the first scene,   *)
(* the lighting task runs the session, the progress bar timer polls it.    *)
(***************************************************************************)
AutoApplyDurationsSec == {65535}

\* app_main: fade_controller_set_current(&initial_state); fade_controller_start(&params)
AutoApply == \E target \in Scenes, sec \in AutoApplyDurationsSec :
    /\ sess = 0
    /\ StartReturns("start", target, sec * 1000,
                    fade_controller_set_current(s_fade, ZeroState).f.current,
                    fade_controller_start(fade_controller_set_current(s_fade, ZeroState).f,
                                          target, sec * 1000, now,
                                          Accepts(s_status), fp_contract))

\* progress_timer_cb: fade_controller_get_progress(&progress), bar value kept
PollProgress ==
    /\ sess > 0
    /\ last' = ProgressStep(fade_controller_get_progress(s_fade, now))
    /\ progress' = [state |-> last'.ret, percent |-> last'.percent, sess |-> sess]
    /\ UNCHANGED <<s_fade, s_status, now, fp_contract, req, sess, task, bus,
                   s_base_event_id, shown,
                   s_state, screen_pc, s_screen_timeout_sec, touch, stack>>

NextBoot ==
    \/ AutoApply
    \/ LightingPeriod
    \/ PollProgress

SpecBoot == InitSession /\ [][NextBoot]_vars

(***************************************************************************)
(* The controller as the two tasks run it.  fade_controller.c takes no     *)
(* lock, so a call made by the LVGL task and the tick of the lighting task *)
(* interleave statement by statement.  A step below is a run of statements *)
(* of one task; each call of the transport is a step of its own.           *)
(***************************************************************************)
\* the transition duration the scene tab passes, in seconds
ConcDurationsSec == {600}

\* bounds of the exploration: the clock steps taken while the tasks race,
\* the calls the LVGL task makes
MaxConcAdvances == 1
MaxConcCalls == 1

\* what the conversion of an out-of-range float to uint8_t may give
ConversionModes == {"wrap", "saturate"}

ConvertU8(v, mode) ==
    IF v \in 0..255 THEN v
    ELSE IF mode = "wrap" THEN v % 256
    ELSE IF v < 0 THEN 0 ELSE 255

\* interpolate_state as start_next_segment calls it, for whatever
\* current_segment and total_segments hold when the statement runs
RacySegmentTarget(f, fused, mode) ==
    LET num == f.current_segment + 1
        den == f.total_segments
        Ch(a, b) == ConvertU8(a + (b - a) * num, mode)
    IN  IF num = 0 THEN f.original_start
        ELSE IF num <= den THEN SegmentTarget(f, f.current_segment, fused)
        ELSE [red        |-> Ch(f.original_start.red, f.final_target.red),
              green      |-> Ch(f.original_start.green, f.final_target.green),
              blue       |-> Ch(f.original_start.blue, f.final_target.blue),
              white      |-> Ch(f.original_start.white, f.final_target.white),
              brightness |-> Ch(f.original_start.brightness, f.final_target.brightness)]

\* where start_next_segment returns to
ReturnPc(t) == IF t = "ui" THEN "start_finish" ELSE "tick_after"

InitConc ==
    /\ s_fade = [ZeroFade EXCEPT !.initialized = TRUE]
    /\ s_status = LCC_STATUS_RUNNING
    /\ now = 0
    /\ fp_contract = FALSE
    /\ progress = [state |-> FADE_STATE_IDLE, percent |-> 0, sess |-> 0]
    /\ last = Step("init", ESP_OK, <<>>)
    /\ req = [target |-> ZeroState, duration_ms |-> 0, start |-> ZeroState,
              pre |-> FADE_STATE_IDLE, aborted |-> FALSE, seeded |-> FALSE,
              ret |-> ESP_OK, unsent |-> {}]
    /\ sess = 0
    /\ task = [t \in Tasks |-> IdleTask]
    /\ bus = <<>>
    /\ s_base_event_id = DEFAULT_BASE_EVENT_ID
    /\ shown = ZeroState
    /\ s_state = ScreenInitialized(SCREEN_TIMEOUT_DEFAULT_SEC, 0)
    /\ screen_pc = ScreenIdle
    /\ s_screen_timeout_sec = DEFAULT_SCREEN_TIMEOUT_SEC
    /\ touch = TouchIdle
    /\ stack = StackDown

\* fade_controller_start up to the computation of total_segments
StartStore(op, target, duration_ms) ==
    /\ task["ui"].pc = "idle"
    /\ sess < MaxConcCalls
    /\ s_fade.initialized
    /\ s_fade' = [s_fade EXCEPT !.original_start = StartBaseline(s_fade),
                                !.final_target = target,
                                !.total_duration_ms = duration_ms,
                                !.total_segments = SegmentCount(duration_ms)]
    /\ task' = [task EXCEPT !["ui"] = [IdleTask EXCEPT !.pc = "start_arm", !.op = op]]
    /\ req' = [target |-> target, duration_ms |-> duration_ms,
               start |-> s_fade.current, pre |-> s_fade.state, aborted |-> FALSE, seeded |-> FALSE,
               ret |-> ESP_OK, unsent |-> {}]
    /\ sess' = sess + 1
    /\ UNCHANGED <<s_status, now, fp_contract, progress, last, bus, s_base_event_id, shown,
                   s_state, screen_pc, s_screen_timeout_sec, touch, stack>>

\* apply_btn_event_cb in the LVGL task
UiStart == \E target \in Scenes, sec \in ConcDurationsSec :
    StartStore("start", target, sec * 1000)

\* edit_preview_btn_cb in the LVGL task
UiApplyImmediate == \E target \in Scenes :
    StartStore("apply_immediate", target, 0)

\* fade_controller_start: current_segment = -1 ... state = FADE_STATE_FADING
StartArm ==
    /\ task["ui"].pc = "start_arm"
    /\ s_fade' = [s_fade EXCEPT !.current_segment = -1,
                                !.fade_start_us = now,
                                !.state = FADE_STATE_FADING]
    /\ task' = [task EXCEPT !["ui"].pc = "sns_inc"]
    /\ UNCHANGED <<s_status, now, fp_contract, progress, last, req, sess, bus,
                   s_base_event_id, shown,
                   s_state, screen_pc, s_screen_timeout_sec, touch, stack>>

\* start_next_segment: the increment and the test for the last segment
SnsInc(t) ==
    LET seg == s_fade.current_segment + 1
    IN  /\ task[t].pc = "sns_inc"
        /\ IF seg >= s_fade.total_segments
           THEN /\ s_fade' = [s_fade EXCEPT !.current_segment = seg,
                                            !.state = FADE_STATE_COMPLETE]
                /\ task' = [task EXCEPT ![t].pc = ReturnPc(t), ![t].ret = ESP_OK]
           ELSE /\ s_fade' = [s_fade EXCEPT !.current_segment = seg]
                /\ task' = [task EXCEPT ![t].pc = "sns_segment"]
        /\ UNCHANGED <<s_status, now, fp_contract, progress, last, req, sess, bus,
                       s_base_event_id, shown,
                       s_state, screen_pc, s_screen_timeout_sec, touch, stack>>

\* start_next_segment: segment_duration_ms, segment_target, duration_sec,
\* segment_start_us
SnsSegment(t) == \E mode \in ConversionModes :
    LET dur == SegmentDuration(s_fade)
    IN  /\ task[t].pc = "sns_segment"
        /\ s_fade' = [s_fade EXCEPT !.segment_duration_ms = dur,
                                    !.segment_target = RacySegmentTarget(s_fade, fp_contract, mode),
                                    !.segment_start_us = now]
        /\ task' = [task EXCEPT ![t].pc = "send", ![t].duration_sec = DurationSec(dur),
                                ![t].i = 1, ![t].sent = <<>>]
        /\ UNCHANGED <<s_status, now, fp_contract, progress, last, req, sess, bus,
                       s_base_event_id, shown,
                       s_state, screen_pc, s_screen_timeout_sec, touch, stack>>

\* send_lighting_command going on to the next event whatever the call returned
SendLightingCommandStepNoReturn(tk, ev, ret, back) ==
    [tk EXCEPT !.sent = IF ret = ESP_OK THEN Append(@, ev) ELSE @,
               !.i = @ + 1,
               !.ret = ret,
               !.pc = IF tk.i = 6 THEN back ELSE "send"]

\* send_lighting_command around one call: ret = lcc_node_send_lighting_event(..);
\* if (ret != ESP_OK) return ret; back is where the caller goes on
SendLightingCommandStep(tk, ev, ret, back) ==
    IF ret = ESP_OK
    THEN [tk EXCEPT !.sent = Append(@, ev),
                    !.i = @ + 1,
                    !.ret = ESP_OK,
                    !.pc = IF tk.i = 6 THEN back ELSE "send"]
    ELSE [tk EXCEPT !.ret = ret, !.pc = back]

\* send_lighting_command: one lcc_node_send_lighting_event call; the channel
\* value is read through the pointer to s_fade.segment_target at the call and
\* the event id is made from the base event id of that moment
SendOne(t) ==
    LET i     == task[t].i
        value == IF i <= 5 THEN Channels(s_fade.segment_target)[i] ELSE task[t].duration_sec
        ret   == lcc_node_send_lighting_event(s_status, i - 1)
        ev    == Event(i - 1, value)
        on_bus == [param |-> ev.param, value |-> ev.value, task |-> t,
                   id |-> EventId(s_base_event_id, ev.param, ev.value)]
    IN  /\ task[t].pc = "send"
        /\ bus' = IF ret # ESP_OK THEN bus
                  ELSE IF bus # <<>> /\ bus[Len(bus)].task = t /\ i > 1
                  THEN Append(bus, on_bus)
                  ELSE <<on_bus>>
        /\ task' = [task EXCEPT ![t] = SendLightingCommandStep(task[t], ev, ret, ReturnPc(t))]
        /\ shown' = IF ret = ESP_OK THEN Shown(shown, Append(task[t].sent, ev)) ELSE shown
        /\ UNCHANGED <<s_fade, s_status, now, fp_contract, progress, last, req, sess, s_base_event_id,
                       s_state, screen_pc, s_screen_timeout_sec, touch, stack>>

\* fade_controller_start after start_next_segment has returned
StartFinish ==
    /\ task["ui"].pc = "start_finish"
    /\ s_fade' = IF task["ui"].ret # ESP_OK
                 THEN [s_fade EXCEPT !.state = FADE_STATE_IDLE]
                 ELSE [s_fade EXCEPT !.current = s_fade.segment_target]
    /\ last' = Step(task["ui"].op, task["ui"].ret, task["ui"].sent)
    /\ req' = [req EXCEPT !.ret = task["ui"].ret]
    /\ task' = [task EXCEPT !["ui"].pc = "idle"]
    /\ UNCHANGED <<s_status, now, fp_contract, progress, sess, bus, s_base_event_id, shown,
                   s_state, screen_pc, s_screen_timeout_sec, touch, stack>>

\* fade_controller_abort called from the LVGL task
UiAbort ==
    /\ task["ui"].pc = "idle"
    /\ s_fade' = fade_controller_abort(s_fade)
    /\ last' = Step("abort", NoReturn, <<>>)
    /\ req' = [req EXCEPT !.aborted = @ \/ (s_fade.initialized /\ s_fade.state = FADE_STATE_FADING)]
    /\ UNCHANGED <<s_status, now, fp_contract, progress, sess, task, bus, s_base_event_id, shown,
                   s_state, screen_pc, s_screen_timeout_sec, touch, stack>>

\* fade_controller_tick up to the test of the elapsed time
TickCheck ==
    /\ task["lighting"].pc = "idle"
    /\ s_fade.initialized
    /\ IF s_fade.state = FADE_STATE_COMPLETE
       THEN /\ s_fade' = [s_fade EXCEPT !.state = FADE_STATE_IDLE]
            /\ task' = task
       ELSE IF s_fade.state = FADE_STATE_FADING /\ SegmentDue(s_fade, now)
       THEN /\ s_fade' = s_fade
            /\ task' = [task EXCEPT !["lighting"] =
                            [IdleTask EXCEPT !.pc = "tick_current", !.op = "tick"]]
       ELSE UNCHANGED <<s_fade, task, s_base_event_id, shown,
                        s_state, screen_pc, s_screen_timeout_sec, touch, stack>>
    /\ UNCHANGED <<s_status, now, fp_contract, progress, last, req, sess, bus,
                   s_base_event_id, shown,
                   s_state, screen_pc, s_screen_timeout_sec, touch, stack>>

\* fade_controller_tick: s_fade.current = s_fade.segment_target
TickCurrent ==
    /\ task["lighting"].pc = "tick_current"
    /\ s_fade' = [s_fade EXCEPT !.current = s_fade.segment_target]
    /\ task' = [task EXCEPT !["lighting"].pc = "sns_inc"]
    /\ UNCHANGED <<s_status, now, fp_contract, progress, last, req, sess, bus,
                   s_base_event_id, shown,
                   s_state, screen_pc, s_screen_timeout_sec, touch, stack>>

\* fade_controller_tick after start_next_segment has returned
TickAfter ==
    /\ task["lighting"].pc = "tick_after"
    /\ s_fade' = IF s_fade.state = FADE_STATE_FADING
                 THEN [s_fade EXCEPT !.current = s_fade.segment_target]
                 ELSE s_fade
    /\ task' = [task EXCEPT !["lighting"].pc = "idle"]
    /\ UNCHANGED <<s_status, now, fp_contract, progress, last, req, sess, bus,
                   s_base_event_id, shown,
                   s_state, screen_pc, s_screen_timeout_sec, touch, stack>>

\* the clock moves on while the tasks run
ConcAdvance ==
    /\ now < MaxConcAdvances * TimeStepMs
    /\ now' = now + TimeStepMs
    /\ UNCHANGED <<s_fade, s_status, fp_contract, progress, last, req, sess, task, bus,
                   s_base_event_id, shown,
                   s_state, screen_pc, s_screen_timeout_sec, touch, stack>>

NextConc ==
    \/ UiStart
    \/ UiApplyImmediate
    \/ StartArm
    \/ \E t \in Tasks : SnsInc(t)
    \/ \E t \in Tasks : SnsSegment(t)
    \/ \E t \in Tasks : SendOne(t)
    \/ StartFinish
    \/ UiAbort
    \/ TickCheck
    \/ TickCurrent
    \/ TickAfter
    \/ ConcAdvance

SpecConc == InitConc /\ [][NextConc]_vars

(***************************************************************************)
(* Properties                                                               *)
(***************************************************************************)
\* the latest call handed events to the transport
Emitted == last.op \in {"start", "apply_immediate", "tick"} /\ last.sent # <<>>

\* the distance between two channel values
Delta(start, end) == IF end >= start THEN end - start ELSE start - end

\* start + (end - start) * num / den in exact arithmetic, truncated
ExactChannel(start, end, num, den) ==
    IF end >= start THEN start + ((end - start) * num) \div den
    ELSE start - ((start - end) * num + den - 1) \div den

C2_ExactInterpolation ==
    Emitted =>
        LET k == s_fade.current_segment
            N == s_fade.total_segments
        IN  /\ \A i \in 1..5 : last.sent[i].value =
                   ExactChannel(Channels(req.start)[i], Channels(req.target)[i], k + 1, N)
            /\ (k = N - 1 => \A i \in 1..5 : last.sent[i].value = Channels(req.target)[i])

\* C2 as amended: the value sent is the single-precision evaluation of the
\* interpolation, truncated: it is the truncated exact value, or one below it
\* when (final_target - start) * (k+1) is a multiple of N; it is the truncated
\* exact value when N is 1, 2 or 4, and the last segment carries final_target
\* exactly.
C2_FloatInterpolation ==
    Emitted =>
        LET k == s_fade.current_segment
            N == s_fade.total_segments
        IN  /\ \A i \in 1..5 :
                 LET x == ExactChannel(Channels(req.start)[i], Channels(req.target)[i], k + 1, N)
                     v == last.sent[i].value
                 IN  /\ v \in 0..255
                     /\ x - 1 <= v /\ v <= x
                     /\ (N \in {1, 2, 4} => v = x)
                     /\ (Delta(Channels(req.start)[i], Channels(req.target)[i]) * (k + 1)) % N # 0
                            => v = x
            /\ (k = N - 1 => \A i \in 1..5 : last.sent[i].value = Channels(req.target)[i])

\* an intermediate segment whose float value falls one below the exact one
C2_Witness ==
    /\ Emitted
    /\ s_fade.current_segment < s_fade.total_segments - 1
    /\ \E i \in 1..5 : last.sent[i].value + 1 =
           ExactChannel(Channels(req.start)[i], Channels(req.target)[i],
                        s_fade.current_segment + 1, s_fade.total_segments)

\* C3: every command set sent is exactly six events in the order red, green,
\* blue, white, brightness, duration; the duration event is the last one and
\* the five before it carry the target of the same segment.
C3_CommandSetOrder ==
    /\ last.sent # <<>> => Emitted
    /\ Emitted =>
         /\ Len(last.sent) = 6
         /\ \A i \in 1..6 : last.sent[i].param =
                <<LIGHT_PARAM_RED, LIGHT_PARAM_GREEN, LIGHT_PARAM_BLUE, LIGHT_PARAM_WHITE,
                  LIGHT_PARAM_BRIGHTNESS, LIGHT_PARAM_DURATION>>[i]
         /\ \A i \in 1..5 : last.sent[i].value = Channels(s_fade.segment_target)[i]
         /\ last.sent[6].value = s_fade.segment_duration_ms \div 1000

\* a tick has sent the command set of a later segment
C3_Witness ==
    /\ Emitted
    /\ last.op = "tick"
    /\ s_fade.current_segment = 1
    /\ s_fade.segment_target # s_fade.final_target

\* C4: the six events of one command set reach the transport as one
\* uninterrupted burst: whatever the interleaving of the lighting task's tick
\* with a start or an immediate apply of the LVGL task, the events on the bus
\* since the sender last changed begin with the red event of a command set
\* and continue in order, so no command set is resumed after events of another.
C4_BurstUninterrupted ==
    \A i \in DOMAIN bus : bus[i].param = i - 1

\* C5: a start (or immediate apply) made while the lighting task ticks
\* behaves as in some serial order of the calls; in particular, when it
\* returns success it has itself sent exactly one command set, the six
\* events of segment 0 of its own request.
C5_StartSendsSegmentZero ==
    (task["ui"].pc = "idle" /\ last.op \in {"start", "apply_immediate"} /\ last.ret = ESP_OK) =>
        LET N == SegmentCount(req.duration_ms)
        IN  last.sent = CommandSet(interpolate_state(req.start, req.target, 1, N, fp_contract),
                                   DurationSec(req.duration_ms \div N))

\* C6: within one uninterrupted fade session the percent that successive
\* get_progress() calls return never decreases as time advances and ticks
\* occur, from the start until the session is COMPLETE.
C6_PercentNonDecreasing ==
    [][(/\ progress'.sess = progress.sess
        /\ progress.state = FADE_STATE_FADING
        /\ progress'.state \in {FADE_STATE_FADING, FADE_STATE_COMPLETE})
          => progress'.percent >= progress.percent]_vars

\* C7 as stated: get_progress() reports 100 only when the state it reports
\* is COMPLETE; while FADING the percent is below 100 and while IDLE it is 0.
C7_HundredOnlyComplete ==
    last.op = "get_progress" =>
        /\ (last.percent = 100 => last.ret = FADE_STATE_COMPLETE)
        /\ (last.ret = FADE_STATE_FADING => last.percent < 100)
        /\ (last.ret = FADE_STATE_IDLE => last.percent = 0)

\* C7 as amended: get_progress() reports 0 while IDLE and 100 while COMPLETE;
\* while FADING it reports a value in 0..100 that is below 100 as long as the
\* total duration is positive and the elapsed time has not reached it, so 100
\* is reported only in COMPLETE, or in FADING when the total duration is 0 or
\* the elapsed time has reached the total before the tick that completes it.
C7_HundredWhenElapsed ==
    [][(last' # last /\ last'.op = "get_progress") =>
        LET total   == s_fade.total_duration_ms
            elapsed == now - s_fade.fade_start_us
        IN  /\ last'.ret = s_fade.state
            /\ last'.percent \in 0..100
            /\ (last'.ret = FADE_STATE_IDLE => last'.percent = 0)
            /\ (last'.ret = FADE_STATE_COMPLETE => last'.percent = 100)
            /\ (last'.ret = FADE_STATE_FADING /\ total > 0 /\ elapsed < total
                  => last'.percent < 100)]_vars

\* get_progress() has reported 100 while the session is still FADING
C7_Witness ==
    /\ last.op = "get_progress"
    /\ last.ret = FADE_STATE_FADING
    /\ last.percent = 100
    /\ s_fade.total_duration_ms > 0

\* a start() or apply_immediate() call that passed the initialisation check
StartStep == sess' = sess + 1 /\ s_fade.initialized

\* a tick that sent the command set of a further segment
TickSendStep ==
    /\ last'.op = "tick"
    /\ last'.sent # <<>>
    /\ s_fade'.current_segment # s_fade.current_segment

\* an abort() that found the controller FADING
AbortStep ==
    /\ last'.op = "abort"
    /\ s_fade.state = FADE_STATE_FADING
    /\ s_fade'.state # FADE_STATE_FADING

\* the target of segment k of the latest request
RequestTarget(k) ==
    interpolate_state(req.start, req.target, k + 1, SegmentCount(req.duration_ms), fp_contract)

\* C8: start() called while a session is FADING supersedes it at once: the
\* new session starts from the value get_current() would have returned at
\* the moment of the call (s_fade.current, the target of the segment in
\* flight), not from the old final_target, and every command set sent from
\* then on, by the call itself and by later ticks, is a segment of the new
\* request.
C8_StartSupersedes ==
    [][/\ StartStep =>
            /\ s_fade'.original_start = s_fade.current
            /\ (s_fade.state = FADE_STATE_FADING /\ ~req.seeded
                   => s_fade'.original_start = s_fade.segment_target)
            /\ s_fade'.final_target = req'.target
            /\ s_fade'.total_duration_ms = req'.duration_ms
            /\ req'.start = s_fade.current
            /\ \/ last'.sent = <<>>
               \/ last'.sent = CommandSet(
                      interpolate_state(s_fade.current, req'.target, 1,
                                        SegmentCount(req'.duration_ms), fp_contract),
                      DurationSec(req'.duration_ms \div SegmentCount(req'.duration_ms)))
       /\ TickSendStep =>
            /\ req' = req
            /\ s_fade'.final_target = req.target
            /\ last'.sent = CommandSet(RequestTarget(s_fade'.current_segment),
                   DurationSec(req.duration_ms \div SegmentCount(req.duration_ms)))]_vars

\* a session started while another one was FADING, from an intermediate
\* value, has had a later segment sent by a tick
C8_Witness ==
    /\ sess = 2
    /\ req.pre = FADE_STATE_FADING
    /\ req.start \notin Scenes \cup {ZeroState}
    /\ s_fade.original_start = req.start
    /\ last.op = "tick"
    /\ last.sent # <<>>

C10_AbortKeepsBaseline ==
    [][/\ AbortStep =>
            /\ s_fade' = [s_fade EXCEPT !.state = FADE_STATE_IDLE]
            /\ (~req.seeded => s_fade'.current = RequestTarget(s_fade.current_segment))
       /\ (StartStep /\ req.aborted) => s_fade'.original_start = s_fade.current]_vars

\* an abort has left the target of an intermediate segment as the baseline
C10_Witness ==
    /\ last.op = "abort"
    /\ req.aborted
    /\ ~req.seeded
    /\ s_fade.current_segment = 1
    /\ s_fade.current = RequestTarget(1)
    /\ s_fade.current # s_fade.final_target

\* a tick that found the segment in flight among those the transport
\* rejected, with the transport running again
RetryStep ==
    /\ last'.op = "tick"
    /\ s_fade.state = FADE_STATE_FADING
    /\ s_fade.current_segment \in req.unsent
    /\ s_status = LCC_STATUS_RUNNING

\* C11 as stated: a tick whose send of segment k was rejected leaves the
\* session at segment k, the next tick sends segment k's command set again,
\* and the session never moves past a segment whose command set has not been
\* accepted.
C11_FailedSegmentRetried ==
    [][/\ RetryStep =>
            /\ s_fade'.current_segment = s_fade.current_segment
            /\ last'.sent = CommandSet(RequestTarget(s_fade.current_segment),
                   DurationSec(req.duration_ms \div SegmentCount(req.duration_ms)))
       /\ (last'.op = "tick" /\ s_fade'.state # FADE_STATE_IDLE)
            => \A k \in req'.unsent : k >= s_fade'.current_segment]_vars

\* C12: when the transport rejects the send, start() and apply_immediate()
\* return the transport's error, the controller is left IDLE with its
\* baseline untouched, and neither the failed call nor any later tick()
\* sends an event for the request.
C12_FailedStartDiscarded ==
    req.ret # ESP_OK =>
        /\ req.ret = lcc_node_send_lighting_event(LCC_STATUS_ERROR, LIGHT_PARAM_RED)
        /\ s_fade.state = FADE_STATE_IDLE
        /\ (~req.seeded => s_fade.current = req.start)
        /\ (last.op \in {"start", "apply_immediate"} => last.ret = req.ret)
        /\ (last.op \in {"start", "apply_immediate", "tick"} => last.sent = <<>>)

\* a tick has run with the transport back up, after a start the transport
\* rejected and at a time when the request's first segment would be over
C12_Witness ==
    /\ req.ret # ESP_OK
    /\ s_fade.final_target = req.target
    /\ req.duration_ms > 0
    /\ last.op = "tick"
    /\ s_status = LCC_STATUS_RUNNING
    /\ SegmentDue(s_fade, now)
    /\ now > s_fade.fade_start_us

\* the operations of the controller other than init
Operations ==
    {"start", "apply_immediate", "tick", "abort", "get_progress", "get_current",
     "set_current"}

\* the error a caller gets when the transport is not ready
TransportNotReady == lcc_node_send_lighting_event(LCC_STATUS_UNINITIALIZED, LIGHT_PARAM_RED)

\* C13 as stated: before init() every operation reports an error, which is
\* neither the invalid-argument error nor the error of a transport that is
\* not ready, sends no event and changes no state.
C13_NotInitializedDistinct ==
    (~s_fade.initialized /\ last.op \in Operations) =>
        /\ last.ret \in {ESP_ERR_INVALID_STATE, ESP_ERR_NOT_FOUND}
        /\ last.ret # ESP_ERR_INVALID_ARG
        /\ last.ret # TransportNotReady
        /\ last.sent = <<>>
        /\ s_fade = ZeroFade

\* C13 as amended: before init() no operation sends an event or changes the
\* controller; start, apply_immediate, get_current and set_current return
\* the invalid-state error, which differs from the invalid-argument error
\* but is the error of a transport that is not ready, tick returns the
\* not-found error, abort returns nothing, and get_progress reports no
\* error but IDLE with percent 0.
C13_NotInitializedReports ==
    (~s_fade.initialized /\ last.op \in Operations) =>
        /\ last.sent = <<>>
        /\ s_fade = ZeroFade
        /\ last.ret # ESP_ERR_INVALID_ARG
        /\ (last.op \in {"start", "apply_immediate", "get_current", "set_current"}
                => last.ret = ESP_ERR_INVALID_STATE /\ last.ret = TransportNotReady)
        /\ (last.op = "tick" => last.ret = ESP_ERR_NOT_FOUND)
        /\ (last.op = "abort" => last.ret = NoReturn)
        /\ (last.op = "get_progress" => last.ret = FADE_STATE_IDLE /\ last.percent = 0)

\* start() has been called before init() with the transport running
C13_Witness ==
    /\ ~s_fade.initialized
    /\ last.op = "start"
    /\ s_status = LCC_STATUS_RUNNING
    /\ req.target # ZeroState
    /\ req.ret # ESP_OK

\* C14: the tick that advances past the last segment leaves the state
\* COMPLETE; while COMPLETE get_progress() reports COMPLETE and 100; the next
\* tick moves COMPLETE to IDLE; FADING turns into IDLE only through start()
\* or abort(), and COMPLETE is left only through a tick, start() or abort().
C14_CompleteBeforeIdle ==
    [][/\ (/\ s_fade.state = FADE_STATE_FADING
           /\ s_fade.current_segment = s_fade.total_segments - 1
           /\ SegmentDue(s_fade, now)
           /\ last'.op = "tick"
           /\ Tick)
            => s_fade'.state = FADE_STATE_COMPLETE
       /\ (s_fade.state = FADE_STATE_COMPLETE /\ last'.op = "tick" /\ Tick)
            => s_fade'.state = FADE_STATE_IDLE
       /\ (s_fade.state = FADE_STATE_COMPLETE /\ last'.op = "get_progress" /\ GetProgress)
            => last'.ret = FADE_STATE_COMPLETE /\ last'.percent = 100
       /\ (s_fade.state = FADE_STATE_FADING /\ s_fade'.state = FADE_STATE_IDLE)
            => sess' = sess + 1 \/ Abort
       /\ (s_fade.state = FADE_STATE_COMPLETE /\ s_fade'.state # FADE_STATE_COMPLETE)
            => Tick \/ sess' = sess + 1 \/ Abort]_vars

\* a three-segment session has gone through COMPLETE and a further tick has
\* left it IDLE
C14_Witness ==
    /\ s_fade.state = FADE_STATE_IDLE
    /\ last.op = "tick"
    /\ req.ret = ESP_OK
    /\ ~req.aborted
    /\ s_fade.total_segments = 3
    /\ s_fade.current_segment = 3

\* a call of apply_immediate(S)
ApplyImmediateStep(S) ==
    /\ sess' = sess + 1
    /\ last'.op = "apply_immediate"
    /\ req'.target = S

\* C15: apply_immediate(S) does what start({S, 0}) does from the same state:
\* the same return value, the same controller state and the same events; when
\* the send is accepted these are one command set with target S and
\* duration value 0, in a session of one segment.
C15_ApplyImmediateIsStart ==
    [][\A S \in Scenes : ApplyImmediateStep(S) =>
          LET r == fade_controller_start(s_fade, S, 0, now, Accepts(s_status), fp_contract)
          IN  /\ s_fade' = r.f
              /\ last'.ret = r.ret
              /\ last'.sent = r.sent
              /\ last'.ret = ESP_OK =>
                    /\ last'.sent = CommandSet(S, 0)
                    /\ s_fade'.total_segments = 1
                    /\ s_fade'.segment_target = S
              /\ last'.ret # ESP_OK => last'.sent = <<>>]_vars

\* apply_immediate() has been accepted while a multi-segment session was
\* past its first segment
C15_Witness ==
    /\ last.op = "apply_immediate"
    /\ last.ret = ESP_OK
    /\ req.pre = FADE_STATE_FADING
    /\ req.start \notin Scenes \cup {ZeroState}
    /\ sess = 2

\* C16 as stated: apply_immediate(S) called on the initialised controller in
\* state IDLE, with the transport running, sends the six events of S with
\* duration 0 and leaves the state IDLE.
C16_ImmediateStaysIdle ==
    [][\A S \in Scenes :
          (ApplyImmediateStep(S) /\ s_fade.initialized
              /\ s_fade.state = FADE_STATE_IDLE /\ s_status = LCC_STATUS_RUNNING)
          => /\ last'.sent = CommandSet(S, 0)
             /\ s_fade'.state = FADE_STATE_IDLE]_vars

\* C17 as stated: after a start() with any duration a uint32_t can hold the
\* session has at least one segment, and while the state is FADING the
\* segment index is at least 0 and below the segment count.
C17_SegmentIndexInRange ==
    (s_fade.initialized /\ sess > 0) =>
        /\ s_fade.total_segments >= 1
        /\ (s_fade.state = FADE_STATE_FADING =>
               0 <= s_fade.current_segment /\ s_fade.current_segment < s_fade.total_segments)

\* what the claim requires of a call that found the transport in status st
\* with base id base and left the record r: the layout of the event id
\* passed on, and the rejection of a parameter above 5
EventIdLayout(base, r) ==
    /\ r.parameter <= 5 =>
          \A i \in DOMAIN r.sent :
             /\ \A w \in 1..3 : r.sent[i][w] = base[w]
             /\ r.sent[i][4] \div 256 = r.parameter
             /\ r.sent[i][4] % 256 = r.value

\* C18 as stated: the event id passed to the transport has the top 48 bits
\* of the base id, the parameter in bits 15..8 and the value in bits 7..0,
\* whatever the low 16 bits of the base id are; a parameter above 5 is
\* rejected with the invalid-argument error and nothing is sent.
C18_EventIdAndRejection ==
    [][SendLightingEvent =>
          /\ EventIdLayout(s_base_event_id, last')
          /\ last'.parameter > 5 =>
                last'.ret = ESP_ERR_INVALID_ARG /\ last'.sent = <<>>]_vars

\* C18 as amended: a call with a parameter in 0..5 on a running transport
\* passes exactly one event id, laid out as stated; a parameter above 5 is
\* rejected and nothing is sent, with the invalid-argument error when the
\* transport is running and with the not-ready error when it is not.
C18_EventIdLayoutAndRejection ==
    [][(/\ last'.op = "send_lighting_event"
        /\ s_base_event_id' = s_base_event_id
        /\ s_screen_timeout_sec' = s_screen_timeout_sec
        /\ s_status' = s_status
        /\ SendLightingEvent) =>
          /\ EventIdLayout(s_base_event_id, last')
          /\ (last'.parameter <= 5 /\ s_status = LCC_STATUS_RUNNING)
                => last'.ret = ESP_OK /\ Len(last'.sent) = 1
          /\ last'.parameter > 5 =>
                /\ last'.sent = <<>>
                /\ last'.ret = IF s_status = LCC_STATUS_RUNNING
                               THEN ESP_ERR_INVALID_ARG ELSE TransportNotReady]_vars

\* an event has been sent under a base id whose low 16 bits are set, with
\* the highest parameter and value
C18_Witness ==
    /\ last.op = "send_lighting_event"
    /\ last.ret = ESP_OK
    /\ last.parameter = LIGHT_PARAM_DURATION
    /\ last.value = 255
    /\ s_base_event_id[4] # 0
    /\ last.sent = <<<<s_base_event_id[1], s_base_event_id[2], s_base_event_id[3], 1535>>>>

\* C19 as stated: get_current() returns the target of the most recent
\* command set whose six events the transport accepted, or the value a later
\* set_current() passed; the target of a segment whose send failed is never
\* what it returns.
C19_CurrentIsShown ==
    s_fade.initialized =>
        /\ fade_controller_get_current(s_fade, ZeroState).state = shown
        /\ (last.op = "get_current" => last.current = shown)

(***************************************************************************)
(* The display power state under the tasks that drive it: the main task     *)
(* calls screen_timeout_tick, the LVGL task runs the touch callback and the *)
(* animation-complete callbacks under the LVGL lock, and any task may call  *)
(* wake() or sleep(). tick, notify_activity, is_interactive, wake and sleep *)
(* hold the module mutex, for which notify_activity and is_interactive wait *)
(* 10 ms at most; start_fade_in, start_fade_out and the callbacks hold the  *)
(* LVGL lock only.                                                          *)
(***************************************************************************)
ScreenStepMs == 5000
MaxScreenAdvances == 4
ScreenTimeoutsSec == {0, 10}

InitScreen ==
    /\ s_fade = [ZeroFade EXCEPT !.initialized = TRUE]
    /\ s_status = LCC_STATUS_RUNNING
    /\ now = 0
    /\ fp_contract = FALSE
    /\ progress = [state |-> FADE_STATE_IDLE, percent |-> 0, sess |-> 0]
    /\ last = Step("init", ESP_OK, <<>>)
    /\ req = [target |-> ZeroState, duration_ms |-> 0, start |-> ZeroState,
              pre |-> FADE_STATE_IDLE, aborted |-> FALSE, seeded |-> FALSE,
              ret |-> ESP_OK, unsent |-> {}]
    /\ sess = 0
    /\ task = [t \in Tasks |-> IdleTask]
    /\ bus = <<>>
    /\ s_base_event_id = DEFAULT_BASE_EVENT_ID
    /\ shown = ZeroState
    /\ \E timeout_sec \in ScreenTimeoutsSec :
          /\ s_screen_timeout_sec = timeout_sec
          /\ s_state = ScreenInitialized(timeout_sec, 0)
    /\ screen_pc = ScreenIdle
    /\ touch = TouchIdle
    /\ stack = StackDown

ScreenRest == <<s_fade, s_status, fp_contract, progress, last, req, sess, task, bus,
                s_base_event_id, shown, s_screen_timeout_sec, stack>>

\* mutant: screen_timeout_tick keeps the mutex until start_fade_in or
\* start_fade_out has returned
ScreenMutexHeldAcrossFade ==
    screen_pc.caller = "idle" /\ screen_pc.main = "idle"

\* the module mutex is free: the main task is not between the take and the
\* give of screen_timeout_tick and no caller is inside wake() or sleep()
ScreenMutexFree == screen_pc.caller = "idle" /\ screen_pc.main # "locked"

\* the LVGL lock is free
UiLockFree == screen_pc.lvgl = "idle" /\ screen_pc.main # "fade_out_clear"

\* screen_timeout_tick takes the mutex
ScreenTickTake ==
    /\ screen_pc.main = "idle"
    /\ ScreenMutexFree
    /\ s_state.initialized
    /\ screen_pc' = [screen_pc EXCEPT !.main = "locked"]
    /\ UNCHANGED <<now, s_state, touch, ScreenRest>>

\* screen_timeout_tick from there to the point where it gives the mutex back
ScreenTick ==
    /\ screen_pc.main = "locked"
    /\ LET d == TickDecision(s_state, now)
       IN  /\ s_state' = IF d = "fade_in" THEN [s_state EXCEPT !.pending_wake = FALSE]
                                          ELSE s_state
           /\ screen_pc' = [screen_pc EXCEPT !.main = d]
    /\ touch' = [touch EXCEPT !.slept = FALSE, !.ticked = TRUE]
    /\ UNCHANGED <<now, ScreenRest>>

\* screen_timeout_tick: start_fade_in under the LVGL lock
ScreenTickFadeIn ==
    /\ screen_pc.main = "fade_in"
    /\ UiLockFree
    /\ s_state' = start_fade_in(s_state, now)
    /\ screen_pc' = [screen_pc EXCEPT !.main = "idle"]
    /\ touch' = [touch EXCEPT !.owed = FALSE, !.via = "tick"]
    /\ UNCHANGED <<now, ScreenRest>>

\* screen_timeout_tick: start_fade_out under the LVGL lock, its write of the
\* state
ScreenTickFadeOut ==
    /\ screen_pc.main = "fade_out"
    /\ UiLockFree
    /\ s_state' = [s_state EXCEPT !.state = SCREEN_STATE_FADING_OUT]
    /\ screen_pc' = [screen_pc EXCEPT !.main = "fade_out_clear"]
    /\ UNCHANGED <<now, touch, ScreenRest>>

\* screen_timeout_tick: the rest of start_fade_out
ScreenTickFadeOutClear ==
    /\ screen_pc.main = "fade_out_clear"
    /\ s_state' = start_fade_out(s_state, now)
    /\ screen_pc' = [screen_pc EXCEPT !.main = "idle"]
    /\ UNCHANGED <<now, touch, ScreenRest>>

\* what has begun the fade-in, if the end of the fade-out ramp begins one:
\* a touch that notify_activity() has latched during the fade-out, or wake()
RampVia(woke) ==
    IF ~woke THEN touch.via ELSE IF touch.latched THEN "touch" ELSE "wake"

\* what a sample with a contact that calls notify_activity() leaves in touch
Notified(taken) ==
    [touch EXCEPT
       !.began = IF @ = "none" THEN s_state.state ELSE @,
       !.owed = @ \/ s_state.state = SCREEN_STATE_OFF,
       !.latched = @ \/ (taken /\ s_state.state = SCREEN_STATE_FADING_OUT),
       !.slept = @ /\ ~taken]

\* lvgl_touch_cb, a sample with a contact: screen_timeout_notify_activity
ScreenNotifyActivity ==
    /\ UiLockFree
    /\ ScreenMutexFree
    /\ s_state' = screen_timeout_notify_activity(s_state, now)
    /\ screen_pc' = [screen_pc EXCEPT !.lvgl = "touch"]
    /\ touch' = Notified(TRUE)
    /\ UNCHANGED <<now, ScreenRest>>

\* lvgl_touch_cb, a sample with a contact: screen_timeout_notify_activity
\* does not get the mutex within its 10 ms, another task holding it that long
ScreenNotifyTimeout ==
    /\ UiLockFree
    /\ ~ScreenMutexFree
    /\ screen_pc' = [screen_pc EXCEPT !.lvgl = "touch"]
    /\ touch' = Notified(FALSE)
    /\ UNCHANGED <<now, s_state, ScreenRest>>

\* lvgl_touch_cb after the notification: what screen_timeout_is_interactive
\* returns decides whether the sample is handed on as pressed; taken tells
\* whether it got the mutex within its 10 ms
TouchForward(taken) ==
    /\ screen_pc.lvgl = "touch"
    /\ screen_pc' = [screen_pc EXCEPT !.lvgl = "idle"]
    /\ touch' = [touch EXCEPT !.pressed = screen_timeout_is_interactive(s_state, taken)]
    /\ UNCHANGED <<now, s_state, ScreenRest>>

ScreenIsInteractive == ScreenMutexFree /\ TouchForward(TRUE)

ScreenIsInteractiveTimeout == ~ScreenMutexFree /\ TouchForward(FALSE)

\* lvgl_touch_cb, a sample without a contact: the touch has ended
TouchReleased ==
    /\ UiLockFree
    /\ touch.began # "none"
    /\ touch' = [touch EXCEPT !.began = "none", !.pressed = FALSE]
    /\ UNCHANGED <<now, s_state, screen_pc, ScreenRest>>

\* screen_timeout_wake up to its test of the state
ScreenWake ==
    /\ ScreenMutexFree
    /\ s_state.initialized
    /\ s_state' = [s_state EXCEPT !.last_activity_us = now]
    /\ screen_pc' = [screen_pc EXCEPT
                       !.caller = "wake",
                       !.seen = s_state.state \in {SCREEN_STATE_OFF, SCREEN_STATE_FADING_OUT}]
    /\ touch' = [touch EXCEPT !.slept = FALSE]
    /\ UNCHANGED <<now, ScreenRest>>

\* screen_timeout_sleep up to its test of the state
ScreenSleep ==
    /\ ScreenMutexFree
    /\ s_state.initialized
    /\ screen_pc' = [screen_pc EXCEPT !.caller = "sleep",
                                      !.seen = s_state.state = SCREEN_STATE_ACTIVE]
    /\ UNCHANGED <<now, s_state, touch, ScreenRest>>

\* screen_timeout_wake or screen_timeout_sleep after the test
ScreenCallerReturns ==
    /\ screen_pc.caller # "idle"
    /\ s_state' = IF ~screen_pc.seen THEN s_state
                  ELSE IF screen_pc.caller = "wake"
                       THEN [s_state EXCEPT !.pending_wake = TRUE]
                       ELSE [s_state EXCEPT !.last_activity_us = 0]
    /\ screen_pc' = [screen_pc EXCEPT !.caller = "idle", !.seen = FALSE]
    /\ touch' = [touch EXCEPT !.slept = @ \/ (screen_pc.caller = "sleep" /\ screen_pc.seen)]
    /\ UNCHANGED <<now, ScreenRest>>

\* LVGL finishes the fade-out animation and fade_out_complete_cb tests
\* pending_wake
FadeOutComplete ==
    /\ UiLockFree
    /\ s_state.anim = "fade_out"
    /\ now - s_state.anim_start >= FADE_DURATION_MS
    /\ s_state' = [s_state EXCEPT !.anim = "none", !.pending_wake = FALSE]
    /\ screen_pc' = [screen_pc EXCEPT !.lvgl = IF s_state.pending_wake THEN "wake" ELSE "off"]
    /\ UNCHANGED <<now, touch, ScreenRest>>

\* the rest of fade_out_complete_cb
FadeOutCompleteReturns ==
    /\ screen_pc.lvgl \in {"wake", "off"}
    /\ s_state' = fade_out_complete_cb(s_state, screen_pc.lvgl = "wake", now)
    /\ screen_pc' = [screen_pc EXCEPT !.lvgl = "idle"]
    /\ touch' = [touch EXCEPT !.latched = FALSE,
                              !.via = RampVia(screen_pc.lvgl = "wake")]
    /\ UNCHANGED <<now, ScreenRest>>

\* LVGL finishes the fade-in animation
FadeInComplete ==
    /\ UiLockFree
    /\ s_state.anim = "fade_in"
    /\ now - s_state.anim_start >= FADE_DURATION_MS
    /\ s_state' = fade_in_complete_cb(s_state)
    /\ touch' = [touch EXCEPT !.via = "none"]
    /\ UNCHANGED <<now, screen_pc, ScreenRest>>

\* the clock moves on
ScreenAdvance ==
    /\ now < MaxScreenAdvances * ScreenStepMs
    /\ now' = now + ScreenStepMs
    /\ touch' = [touch EXCEPT !.ticked = FALSE]
    /\ UNCHANGED <<s_state, screen_pc, ScreenRest>>

NextScreen ==
    \/ ScreenTickTake
    \/ ScreenTick
    \/ ScreenTickFadeIn
    \/ ScreenTickFadeOut
    \/ ScreenTickFadeOutClear
    \/ ScreenNotifyActivity
    \/ ScreenNotifyTimeout
    \/ ScreenIsInteractive
    \/ ScreenIsInteractiveTimeout
    \/ TouchReleased
    \/ ScreenWake
    \/ ScreenSleep
    \/ ScreenCallerReturns
    \/ FadeOutComplete
    \/ FadeOutCompleteReturns
    \/ FadeInComplete
    \/ ScreenAdvance

SpecScreen == InitScreen /\ [][NextScreen]_vars

\* the same under the scheduling the code relies on: the main loop keeps
\* calling screen_timeout_tick and gets the locks it waits for, the LVGL task
\* keeps running its callbacks, and a caller inside wake() or sleep() returns
ScreenFairness ==
    /\ SF_vars(ScreenTickTake)
    /\ WF_vars(ScreenTick)
    /\ SF_vars(ScreenTickFadeIn)
    /\ SF_vars(ScreenTickFadeOut)
    /\ WF_vars(ScreenTickFadeOutClear)
    /\ WF_vars(ScreenIsInteractive \/ ScreenIsInteractiveTimeout)
    /\ WF_vars(ScreenCallerReturns)
    /\ WF_vars(FadeOutComplete)
    /\ WF_vars(FadeOutCompleteReturns)
    /\ WF_vars(FadeInComplete)

SpecScreenLive == InitScreen /\ [][NextScreen]_vars /\ ScreenFairness

\* a wake that the module has latched while Off is carried out
LatchedWakeBegins ==
    (s_state.pending_wake /\ s_state.state = SCREEN_STATE_OFF)
        ~> (s_state.state = SCREEN_STATE_FADING_IN)

\* C22 as stated: every notify_activity() call made while the display is Off
\* is followed by FadingIn, given that tick() and the animations keep
\* running; none is silently ignored.
C22_NotificationWakes ==
    touch.owed ~> (s_state.state = SCREEN_STATE_FADING_IN)

C25_DisabledNeverTimesOut ==
    s_state.timeout_sec = 0 =>
        /\ s_state.state = SCREEN_STATE_ACTIVE
        /\ s_state.backlight
        /\ s_state.anim = "none"
        /\ screen_pc.main \in {"idle", "locked"}

\* with the timeout 0 a tick has looked at the timer more than the smallest
\* valid timeout after the last activity
C25_Witness ==
    /\ s_state.timeout_sec = 0
    /\ touch.ticked
    /\ screen_pc.main = "idle"
    /\ now - s_state.last_activity_us > SCREEN_TIMEOUT_MIN_SEC * 1000
    /\ s_state.state = SCREEN_STATE_ACTIVE

\* C26 as stated: screen_timeout_is_interactive() returns true only while the
\* display is Active, whatever the other tasks do with the state mutex.
C26_InteractiveOnlyActive ==
    [][(screen_pc.lvgl = "touch" /\ screen_pc'.lvgl = "idle" /\ touch'.pressed)
          => s_state.state = SCREEN_STATE_ACTIVE]_vars

\* C27 as stated: a sample is handed to the UI as pressed only if the display
\* is Active at that moment, and no sample of a touch whose first sample
\* found the display FadingOut, Off or FadingIn is ever handed on as pressed,
\* however long the touch lasts.
C27_WakingTouchNeverPressed ==
    [][(screen_pc.lvgl = "touch" /\ screen_pc'.lvgl = "idle" /\ touch'.pressed)
          => /\ s_state.state = SCREEN_STATE_ACTIVE
             /\ touch.began = SCREEN_STATE_ACTIVE]_vars

\* C28 as stated: after sleep() has found the display Active, the next tick
\* that looks at the timer starts the fade-out, for every timeout and at
\* every time since boot, unless activity is notified in between; sleep() in
\* any other state changes nothing.
C28_SleepForcesFadeOut ==
    [][/\ (/\ touch.slept
           /\ s_state.state = SCREEN_STATE_ACTIVE
           /\ screen_pc.main = "locked"
           /\ screen_pc'.main # "locked")
            => screen_pc'.main = "fade_out"
       /\ (screen_pc.caller = "sleep" /\ ~screen_pc.seen /\ screen_pc'.caller = "idle")
            => s_state' = s_state]_vars

(***************************************************************************)
(* The display power state against the clock: the main loop calls          *)
(* screen_timeout_tick every TICK_PERIOD_MS, touches come at any time, and *)
(* every tick and every animation-complete callback runs as soon as it is  *)
(* due, no task waiting for a lock.                                        *)
(***************************************************************************)
TICK_PERIOD_MS == 500
TimedStepMs == 250
MaxTimedAdvances == 56

\* the whole of screen_timeout_tick at time t, start_fade_in or
\* start_fade_out included
screen_timeout_tick(s, t) ==
    LET d == TickDecision(s, t)
    IN  IF d = "fade_in" THEN start_fade_in([s EXCEPT !.pending_wake = FALSE], t)
        ELSE IF d = "fade_out" THEN start_fade_out(s, t)
        ELSE s

\* a tick of the main loop is due
TickDue == now >= screen_pc.wake_at

\* the animation that runs has reached its end
AnimDue == s_state.anim # "none" /\ now - s_state.anim_start >= FADE_DURATION_MS

\* app_main: screen_timeout_tick, then vTaskDelay
TimedTick ==
    /\ TickDue
    /\ s_state' = screen_timeout_tick(s_state, now)
    /\ screen_pc' = [screen_pc EXCEPT !.wake_at = now + TICK_PERIOD_MS]
    /\ touch' = [touch EXCEPT
                   !.ticked = TRUE, !.slept = FALSE,
                   !.owed = @ /\ s_state'.state # SCREEN_STATE_FADING_IN,
                   !.via = IF s_state'.state = SCREEN_STATE_FADING_IN
                                /\ s_state.state # SCREEN_STATE_FADING_IN
                           THEN "tick" ELSE @]
    /\ UNCHANGED <<now, ScreenRest>>

\* lvgl_touch_cb: a tap, its one sample handed on if the display is interactive
TimedTouch ==
    /\ s_state' = screen_timeout_notify_activity(s_state, now)
    /\ touch' = [Notified(TRUE) EXCEPT
                   !.began = "none",
                   !.pressed = screen_timeout_is_interactive(s_state', TRUE)]
    /\ UNCHANGED <<now, screen_pc, ScreenRest>>

\* LVGL finishes the fade-out animation: fade_out_complete_cb
TimedFadeOutComplete ==
    /\ s_state.anim = "fade_out"
    /\ AnimDue
    /\ s_state' = fade_out_complete_cb(
                      [s_state EXCEPT !.anim = "none", !.pending_wake = FALSE],
                      s_state.pending_wake, now)
    /\ touch' = [touch EXCEPT !.latched = FALSE,
                              !.via = RampVia(s_state.pending_wake)]
    /\ UNCHANGED <<now, screen_pc, ScreenRest>>

\* LVGL finishes the fade-in animation: fade_in_complete_cb
TimedFadeInComplete ==
    /\ s_state.anim = "fade_in"
    /\ AnimDue
    /\ s_state' = fade_in_complete_cb(s_state)
    /\ touch' = [touch EXCEPT !.via = "none"]
    /\ UNCHANGED <<now, screen_pc, ScreenRest>>

\* the clock moves on once everything due has run
TimedAdvance ==
    /\ ~TickDue
    /\ ~AnimDue
    /\ now < MaxTimedAdvances * TimedStepMs
    /\ now' = now + TimedStepMs
    /\ touch' = [touch EXCEPT !.ticked = FALSE]
    /\ UNCHANGED <<s_state, screen_pc, ScreenRest>>

NextTimed ==
    \/ TimedTick
    \/ TimedTouch
    \/ TimedFadeOutComplete
    \/ TimedFadeInComplete
    \/ TimedAdvance

SpecScreenTimed == InitScreen /\ [][NextTimed]_vars

\* C21 as stated: with idle_timeout > 0 the display that saw no activity for
\* idle_timeout seconds goes through FadingOut to Off, and it enters Off no
\* later than idle_timeout + fade_duration after the last activity.
C21_OffWithinBound ==
    [][(s_state.state # SCREEN_STATE_OFF /\ s_state'.state = SCREEN_STATE_OFF)
          => /\ s_state.state = SCREEN_STATE_FADING_OUT
             /\ s_state.timeout_sec > 0
             /\ now <= s_state.last_activity_us + s_state.timeout_sec * 1000
                                                + FADE_DURATION_MS]_vars

\* C29 as stated: the step on which the fade-in ramp completes makes the
\* state Active and resets the idle timer to that moment, so that the next
\* timeout is measured from the completion of the fade-in.
C29_FadeInCompleteResetsTimer ==
    [][(s_state.state = SCREEN_STATE_FADING_IN /\ s_state'.state # SCREEN_STATE_FADING_IN)
          => /\ s_state'.state = SCREEN_STATE_ACTIVE
             /\ s_state'.last_activity_us = now']_vars

ScreenTransitions ==
    {<<SCREEN_STATE_ACTIVE, SCREEN_STATE_FADING_OUT>>,
     <<SCREEN_STATE_FADING_OUT, SCREEN_STATE_OFF>>,
     <<SCREEN_STATE_FADING_OUT, SCREEN_STATE_FADING_IN>>,
     <<SCREEN_STATE_OFF, SCREEN_STATE_FADING_IN>>,
     <<SCREEN_STATE_FADING_IN, SCREEN_STATE_ACTIVE>>}

\* C20: under every interleaving of tick(), notify_activity(), wake(),
\* sleep() and the animation-complete callbacks the display power state
\* changes only along Active->FadingOut, FadingOut->Off, FadingOut->FadingIn,
\* Off->FadingIn and FadingIn->Active, and the idle timer starts a fade-out
\* only from Active.
C20_ScreenTransitions ==
    [][/\ s_state'.state # s_state.state
           => <<s_state.state, s_state'.state>> \in ScreenTransitions
       /\ ScreenTickFadeOut => s_state.state = SCREEN_STATE_ACTIVE]_vars

\* the display that the idle timer had faded out is fading back in after
\* activity, every task outside the module
C20_Witness ==
    /\ s_state.state = SCREEN_STATE_FADING_IN
    /\ s_state.anim = "fade_in"
    /\ s_state.anim_start > 0
    /\ s_state.last_activity_us > 0
    /\ s_state.backlight
    /\ screen_pc = ScreenIdle

\* C24 as stated: a touch notified during the fade-out aborts it: the state
\* leaves FadingOut for FadingIn before the fade-out ramp has run its
\* FADE_DURATION_MS.
C24_TouchAbortsFadeOut ==
    [][(/\ touch.latched
        /\ s_state.state = SCREEN_STATE_FADING_OUT
        /\ s_state'.state = SCREEN_STATE_FADING_IN)
          => now - s_state.anim_start < FADE_DURATION_MS]_vars

(***************************************************************************)
(* The idle timeout from the configuration to the display power module:    *)
(* apply_configuration and factory_reset set the value of the node,        *)
(* app_main hands that value to screen_timeout_init, and                   *)
(* screen_timeout_set_duration replaces it afterwards.                     *)
(***************************************************************************)
\* s_state before screen_timeout_init: the static initialiser
ScreenStatic ==
    [initialized |-> FALSE, timeout_sec |-> SCREEN_TIMEOUT_DEFAULT_SEC,
     last_activity_us |-> 0, state |-> SCREEN_STATE_ACTIVE, pending_wake |-> FALSE,
     backlight |-> TRUE, anim |-> "none", anim_start |-> 0]

\* the durations a caller of screen_timeout_set_duration passes
SetDurationsSec == {0, 1, 9, 10, 60, 3600, 3601, 65535}

\* screen_timeout_init with the given configuration at time t
screen_timeout_init(s, timeout_sec, t) ==
    IF s.initialized THEN s
    ELSE [s EXCEPT !.timeout_sec = timeout_sec, !.last_activity_us = t,
                   !.state = SCREEN_STATE_ACTIVE, !.initialized = TRUE,
                   !.pending_wake = FALSE]

\* screen_timeout_set_duration at time t, the mutex taken
screen_timeout_set_duration(s, timeout_sec, t) ==
    IF ~s.initialized THEN s
    ELSE LET clamped == IF timeout_sec # 0 /\ timeout_sec < SCREEN_TIMEOUT_MIN_SEC
                          THEN SCREEN_TIMEOUT_MIN_SEC
                        ELSE IF timeout_sec > SCREEN_TIMEOUT_MAX_SEC
                          THEN SCREEN_TIMEOUT_MAX_SEC
                        ELSE timeout_sec
         IN  [s EXCEPT !.timeout_sec = clamped, !.last_activity_us = t]

\* screen_timeout_get_duration; taken tells whether the mutex was obtained
\* within 10 ms
screen_timeout_get_duration(s, taken) ==
    IF s.initialized /\ taken THEN s.timeout_sec ELSE 0

InitConfig ==
    /\ s_fade = [ZeroFade EXCEPT !.initialized = TRUE]
    /\ s_status = LCC_STATUS_RUNNING
    /\ now = 0
    /\ fp_contract = FALSE
    /\ progress = [state |-> FADE_STATE_IDLE, percent |-> 0, sess |-> 0]
    /\ last = Step("init", ESP_OK, <<>>)
    /\ req = [target |-> ZeroState, duration_ms |-> 0, start |-> ZeroState,
              pre |-> FADE_STATE_IDLE, aborted |-> FALSE, seeded |-> FALSE,
              ret |-> ESP_OK, unsent |-> {}]
    /\ sess = 0
    /\ task = [t \in Tasks |-> IdleTask]
    /\ bus = <<>>
    /\ s_base_event_id = DEFAULT_BASE_EVENT_ID
    /\ shown = ZeroState
    /\ s_screen_timeout_sec = DEFAULT_SCREEN_TIMEOUT_SEC
    /\ s_state = ScreenStatic
    /\ screen_pc = ScreenIdle
    /\ touch = TouchIdle
    /\ stack = StackDown

\* factory_reset: the defaults written to the configuration and to the node
FactoryReset ==
    /\ s_screen_timeout_sec' = DEFAULT_SCREEN_TIMEOUT_SEC
    /\ s_base_event_id' = DEFAULT_BASE_EVENT_ID
    /\ UNCHANGED <<s_fade, s_status, now, fp_contract, progress, last, req, sess, task, bus, shown,
                   s_state, screen_pc, touch, stack>>

\* app_main: screen_timeout_init with lcc_node_get_screen_timeout_sec()
ScreenTimeoutInit ==
    /\ s_state' = screen_timeout_init(s_state, s_screen_timeout_sec, now)
    /\ UNCHANGED <<now, screen_pc, touch, ScreenRest>>

\* the rest of the state for a call that reports to its caller
ConfigRest == <<s_fade, s_status, now, fp_contract, progress, req, sess, task, bus,
                s_base_event_id, shown, screen_pc, s_screen_timeout_sec, touch, stack>>

ScreenTimeoutSetDuration == \E timeout_sec \in SetDurationsSec :
    /\ s_state' = screen_timeout_set_duration(s_state, timeout_sec, now)
    /\ last' = [op |-> "set_duration", ret |-> NoReturn, sent |-> <<>>,
                percent |-> 0, current |-> ZeroState, value |-> timeout_sec]
    /\ UNCHANGED ConfigRest

\* screen_timeout_get_duration: value is the uint16_t it returns
ScreenTimeoutGetDuration ==
    /\ last' = [op |-> "get_duration", ret |-> "uint16_t", sent |-> <<>>,
                percent |-> 0, current |-> ZeroState,
                value |-> screen_timeout_get_duration(s_state, TRUE)]
    /\ UNCHANGED <<s_state, ConfigRest>>

\* the clock moves on
ConfigAdvance ==
    /\ now < MaxScreenAdvances * ScreenStepMs
    /\ now' = now + ScreenStepMs
    /\ UNCHANGED <<s_state, screen_pc, touch, ScreenRest>>

NextConfig ==
    \/ ApplyConfiguration
    \/ FactoryReset
    \/ ScreenTimeoutInit
    \/ ScreenTimeoutSetDuration
    \/ ScreenTimeoutGetDuration
    \/ ConfigAdvance

SpecScreenConfig == InitConfig /\ [][NextConfig]_vars

\* C30 as stated: once the display power module is initialised, whatever the
\* configured value and whatever set_duration() calls and configuration loads
\* have happened, its idle timeout is 0 or within 10..3600 seconds.
C30_TimeoutInRange ==
    s_state.initialized =>
        \/ s_state.timeout_sec = 0
        \/ s_state.timeout_sec \in SCREEN_TIMEOUT_MIN_SEC..SCREEN_TIMEOUT_MAX_SEC

(***************************************************************************)
(* lcc_node_init step by step against the executor thread it starts.  The  *)
(* executor runs at priority 5 and preempts the main task (priority 1) at  *)
(* any point; it looks a memory space up in the registry for every memory  *)
(* configuration query, and queries come once the node has announced       *)
(* itself.  registry()->insert() on the std::map is not one step.          *)
(***************************************************************************)
SPACE_CONFIG == 253
SPACE_ACDI_USR == 251

\* the spaces a configuration tool asks for
QuerySpaces == {SPACE_CONFIG, SPACE_ACDI_USR}

MaxQueries == 2

\* start_executor_thread without the delay: the node announces itself at once
start_executor_thread_undelayed(st, delay_start) ==
    [st EXCEPT !.executor = TRUE, !.announced = TRUE,
               !.registry = {SPACE_CONFIG, SPACE_ACDI_USR}]

\* start_executor_thread: default_start_node() registers the default spaces,
\* the thread starts, and the node announces itself unless delay_start
start_executor_thread(st, delay_start) ==
    [st EXCEPT !.executor = TRUE, !.announced = ~delay_start,
               !.registry = {SPACE_CONFIG, SPACE_ACDI_USR}]

InitLcc ==
    /\ s_fade = [ZeroFade EXCEPT !.initialized = TRUE]
    /\ s_status = LCC_STATUS_UNINITIALIZED
    /\ now = 0
    /\ fp_contract = FALSE
    /\ progress = [state |-> FADE_STATE_IDLE, percent |-> 0, sess |-> 0]
    /\ last = Step("init", ESP_OK, <<>>)
    /\ req = [target |-> ZeroState, duration_ms |-> 0, start |-> ZeroState,
              pre |-> FADE_STATE_IDLE, aborted |-> FALSE, seeded |-> FALSE,
              ret |-> ESP_OK, unsent |-> {}]
    /\ sess = 0
    /\ task = [t \in Tasks |-> IdleTask]
    /\ bus = <<>>
    /\ s_base_event_id = DEFAULT_BASE_EVENT_ID
    /\ shown = ZeroState
    /\ s_screen_timeout_sec = DEFAULT_SCREEN_TIMEOUT_SEC
    /\ s_state = ScreenStatic
    /\ screen_pc = ScreenIdle
    /\ touch = TouchIdle
    /\ stack = StackDown

LccRest == <<s_fade, now, fp_contract, progress, last, req, sess, task, bus, shown,
             s_state, screen_pc, s_screen_timeout_sec, touch>>

\* lcc_node_init up to the creation of the stack
LccInitBegin ==
    /\ s_status = LCC_STATUS_UNINITIALIZED
    /\ stack.pc = "none"
    /\ s_status' = LCC_STATUS_INITIALIZING
    /\ stack' = [stack EXCEPT !.pc = "config"]
    /\ UNCHANGED <<s_base_event_id, LccRest>>

\* create_config_file_if_needed: failure ends the init, success reads the
\* base event id
LccInitConfigFile ==
    /\ stack.pc = "config"
    /\ \/ /\ s_status' = LCC_STATUS_ERROR
          /\ stack' = [stack EXCEPT !.pc = "failed"]
          /\ UNCHANGED s_base_event_id
       \/ /\ \E base \in BaseEventIds : s_base_event_id' = base
          /\ stack' = [stack EXCEPT !.pc = "executor"]
          /\ UNCHANGED s_status
    /\ UNCHANGED LccRest

\* start_executor_thread("lcc_exec", 5, 8192, true)
LccStartExecutor ==
    /\ stack.pc = "executor"
    /\ stack' = [start_executor_thread(stack, TRUE) EXCEPT !.pc = "insert_config"]
    /\ UNCHANGED <<s_status, s_base_event_id, LccRest>>

\* registry()->insert() begins for the space the init has come to
LccInsertBegin ==
    /\ stack.pc \in {"insert_config", "insert_acdi"}
    /\ stack.inserting = 0
    /\ stack' = [stack EXCEPT !.inserting = IF stack.pc = "insert_config"
                                             THEN SPACE_CONFIG ELSE SPACE_ACDI_USR]
    /\ UNCHANGED <<s_status, s_base_event_id, LccRest>>

\* registry()->insert() returns
LccInsertEnd ==
    /\ stack.inserting # 0
    /\ stack' = [stack EXCEPT !.registry = @ \cup {stack.inserting},
                              !.custom = @ \cup {stack.inserting},
                              !.inserting = 0,
                              !.pc = IF stack.pc = "insert_config"
                                       THEN "insert_acdi" ELSE "announce"]
    /\ UNCHANGED <<s_status, s_base_event_id, LccRest>>

\* start_after_delay: the node announces itself
LccStartAfterDelay ==
    /\ stack.pc = "announce"
    /\ stack' = [stack EXCEPT !.announced = TRUE, !.pc = "running"]
    /\ UNCHANGED <<s_status, s_base_event_id, LccRest>>

\* s_status = LCC_STATUS_RUNNING; return ESP_OK
LccInitReturns ==
    /\ stack.pc = "running"
    /\ s_status' = LCC_STATUS_RUNNING
    /\ stack' = [stack EXCEPT !.pc = "done"]
    /\ UNCHANGED <<s_base_event_id, LccRest>>

\* the executor takes a memory configuration query and looks its space up
ExecutorQuery == \E space \in QuerySpaces :
    /\ stack.executor
    /\ stack.announced
    /\ stack.looking = 0
    /\ stack.served < MaxQueries
    /\ stack' = [stack EXCEPT !.looking = space]
    /\ UNCHANGED <<s_status, s_base_event_id, LccRest>>

\* the lookup returns and the query is answered
ExecutorAnswer ==
    /\ stack.looking # 0
    /\ stack' = [stack EXCEPT !.looking = 0, !.served = @ + 1]
    /\ UNCHANGED <<s_status, s_base_event_id, LccRest>>

\* a configuration tool has written the configuration: the executor runs
\* apply_configuration
ExecutorApplyConfiguration ==
    /\ stack.executor
    /\ stack.announced
    /\ ApplyConfiguration

NextLcc ==
    \/ ExecutorApplyConfiguration
    \/ LccInitBegin
    \/ LccInitConfigFile
    \/ LccStartExecutor
    \/ LccInsertBegin
    \/ LccInsertEnd
    \/ LccStartAfterDelay
    \/ LccInitReturns
    \/ ExecutorQuery
    \/ ExecutorAnswer

SpecLcc == InitLcc /\ [][NextLcc]_vars

\* C31: while lcc_node_init runs, the node is announced only once both
\* custom memory spaces (253 and 251) are in the registry, the executor
\* looks nothing up before the node is announced, and no lookup by the
\* executor is in progress while the main task is inside an insert.
C31_NoLookupDuringInsert ==
    /\ stack.announced => {SPACE_CONFIG, SPACE_ACDI_USR} \subseteq stack.custom
    /\ stack.looking # 0 => stack.announced
    /\ ~(stack.inserting # 0 /\ stack.looking # 0)

\* the executor is looking the configuration space up while the main task is
\* still inside lcc_node_init, after start_after_delay()
C31_Witness ==
    /\ stack.pc = "running"
    /\ s_status = LCC_STATUS_INITIALIZING
    /\ stack.looking = SPACE_CONFIG

\* the duration the specification has set_duration(x) store
ClampedDuration(x) ==
    IF x = 0 THEN 0
    ELSE IF x <= 9 THEN 10
    ELSE IF x <= 3600 THEN x
    ELSE 3600

\* C32 as stated: on the initialised module set_duration(x) stores clamp(x)
\* (0 stays 0, 1..9 becomes 10, 10..3600 is kept, above 3600 becomes 3600)
\* and restarts the idle timer from the time of the call, get_duration()
\* returns the stored value, and set_duration(get_duration()) leaves the
\* stored value as it was.
C32_SetDurationClamps ==
    [][/\ (s_state.initialized /\ ScreenTimeoutSetDuration)
            => /\ s_state'.timeout_sec = ClampedDuration(last'.value)
               /\ s_state'.last_activity_us = now
               /\ last'.value = screen_timeout_get_duration(s_state, TRUE)
                     => s_state'.timeout_sec = s_state.timeout_sec
       /\ (s_state.initialized /\ ScreenTimeoutGetDuration)
            => last'.value = s_state.timeout_sec]_vars

(***************************************************************************)
(* A command set of the LVGL task against the protocol executor thread and *)
(* the transport: the executor runs apply_configuration and factory_reset  *)
(* between any two events of the burst, and the transport may be shut down *)
(* between them.                                                           *)
(***************************************************************************)
NextBurst ==
    \/ UiStart
    \/ StartArm
    \/ SnsInc("ui")
    \/ SnsSegment("ui")
    \/ SendOne("ui")
    \/ StartFinish
    \/ ApplyConfiguration
    \/ FactoryReset
    \/ LccShutdown

SpecBurst == InitConc /\ [][NextBurst]_vars

\* C33: the events a call of send_lighting_command has had accepted are the
\* first events of the command set in order, so the duration event is sent
\* only as the sixth, after the five channel events were accepted; once one
\* send has failed the call sends nothing more.
C33_DurationOnlyAfterChannels ==
    \A t \in Tasks :
        /\ \A k \in DOMAIN task[t].sent : task[t].sent[k].param = k - 1
        /\ task[t].pc = "send" => task[t].i = Len(task[t].sent) + 1

\* the transport went down in the middle of a burst: the call has returned
\* the error with some, not all, channel events accepted
C33_Witness ==
    /\ task["ui"].pc = "start_finish"
    /\ task["ui"].ret = ESP_ERR_INVALID_STATE
    /\ Len(task["ui"].sent) \in 1..5

\* C37 as stated: the events of one command set on the bus carry the same
\* top 48 bits of the base event id, whatever apply_configuration and
\* factory_reset do while the burst is sent.
C37_OneBaseIdPerBurst ==
    \A i, j \in DOMAIN bus :
        bus[i].task = bus[j].task =>
            \A w \in 1..3 : bus[i].id[w] = bus[j].id[w]

\* C34: a start() (or apply_immediate()) that fails because the transport
\* rejects the send leaves what get_current() returns as it was before the
\* call and leaves the controller IDLE, whatever state it found; a tick
\* after it, however late and with the transport running, sends nothing, so
\* a session that was FADING is ended.
C34_FailedStartKeepsCurrent ==
    [][(StartStep /\ req'.ret # ESP_OK) =>
          /\ fade_controller_get_current(s_fade', ZeroState)
                = fade_controller_get_current(s_fade, ZeroState)
          /\ s_fade'.state = FADE_STATE_IDLE
          /\ fade_controller_tick(s_fade', now + MAX_SEGMENT_DURATION_SEC * 1000, 6,
                                 fp_contract).sent = <<>>]_vars

\* a start was rejected by the transport while a session was FADING
C34_Witness ==
    /\ req.ret # ESP_OK
    /\ req.pre = FADE_STATE_FADING
    /\ last.op \in {"start", "apply_immediate"}
    /\ last.ret = req.ret
    /\ s_fade.state = FADE_STATE_IDLE

(***************************************************************************)
(* Sessions under a lighting task that keeps running: lighting_task calls  *)
(* fade_controller_tick in its loop for ever, so the tick at the end of    *)
(* the segment in flight always comes.  The transport may go down at any   *)
(* point of a session.                                                     *)
(***************************************************************************)
MaxLiveStarts == 1

LiveStart == \E target \in Scenes, sec \in SessionDurationsSec :
    /\ sess < MaxLiveStarts
    /\ StartWith("start", target, sec * 1000)

\* lighting_task: vTaskDelayUntil returns while a session is under way
LightingWake ==
    /\ task["lighting"].pc = "idle"
    /\ s_fade.state # FADE_STATE_IDLE
    /\ task' = [task EXCEPT !["lighting"].pc = "tick_due"]
    /\ UNCHANGED <<s_fade, s_status, now, fp_contract, progress, last, req, sess, bus,
                   s_base_event_id, shown,
                   s_state, screen_pc, s_screen_timeout_sec, touch, stack>>

\* lighting_task: the tick that finds the segment in flight complete
LightingRun ==
    /\ task["lighting"].pc = "tick_due"
    /\ now' = SegmentEnd(s_fade, now)
    /\ TickStores(fade_controller_tick(s_fade, SegmentEnd(s_fade, now),
                                       Accepts(s_status), fp_contract))
    /\ task' = [task EXCEPT !["lighting"].pc = "idle"]

NextSessionLive ==
    \/ LiveStart
    \/ LightingWake
    \/ LightingRun
    \/ LccShutdown

\* the loop of lighting_task never ends: the delay always returns, and the
\* tick the task has woken for is run (LightingRun is enabled exactly while
\* the task is at tick_due, and only it leaves tick_due)
SessionFairness ==
    /\ WF_vars(LightingWake)
    /\ []<>(task["lighting"].pc # "tick_due")

SpecSessionLive == InitSession /\ [][NextSessionLive]_vars /\ SessionFairness

WideProduct(a, x) ==
    LET lo == a * (x % 65536)
    IN  <<a * (x \div 65536) + lo \div 65536, lo % 65536>>

\* floor(100 * elapsed / total) in unbounded arithmetic, for
\* 0 <= elapsed <= total and 0 < total < 2^31
ExactPercent(elapsed, total) ==
    LET e == WideProduct(100, elapsed)
        AtMost(p) == LET q == WideProduct(p, total)
                     IN  q[1] < e[1] \/ (q[1] = e[1] /\ q[2] <= e[2])
    IN  CHOOSE p \in 0..100 : AtMost(p) /\ ~AtMost(p + 1)

\* C36: for every total duration of the 32-bit millisecond field and every
\* elapsed time, the percent get_progress() reports while FADING is
\* floor(100 * min(elapsed, total) / total): the product elapsed_ms * 100
\* does not wrap around, so the value is within 0..100 and follows the
\* elapsed time however long the fade is.
C36_PercentIsExactFloor ==
    [][(/\ last' # last
        /\ last'.op = "get_progress"
        /\ last'.ret = FADE_STATE_FADING
        /\ s_fade.total_duration_ms > 0) =>
          LET total   == s_fade.total_duration_ms
              e0      == now - s_fade.fade_start_us
              elapsed == IF e0 > total THEN total ELSE e0
          IN  last'.percent = ExactPercent(elapsed, total)]_vars

\* C38: the display enters FadingOut only if, at the moment the transition
\* is made, the time since the last notified activity is at least the idle
\* timeout: a notification that arrives after tick() has checked the timeout
\* and before it starts the fade-out prevents that fade-out.
C38_FadeOutOnlyWhenIdle ==
    [][(/\ s_state.state # SCREEN_STATE_FADING_OUT
        /\ s_state'.state = SCREEN_STATE_FADING_OUT) =>
          now - s_state.last_activity_us >= s_state.timeout_sec * 1000]_vars

\* C39: in every reachable state, under every interleaving of tick(),
\* notify_activity(), wake() and the animation-complete callbacks,
\* pending_wake = true implies that the state is FadingOut or Off.
C39_LatchOnlyWhenDark ==
    s_state.pending_wake =>
        s_state.state \in {SCREEN_STATE_FADING_OUT, SCREEN_STATE_OFF}

\* C40: the display power module cannot deadlock. No context waits for the
\* LVGL lock while it holds the module mutex: when screen_timeout_tick waits
\* for or holds the LVGL lock, the mutex is free unless a caller of wake() or
\* sleep() has it. Every wait for the mutex under the LVGL lock is bounded,
\* so a tick that has begun returns, the touch callback and
\* fade_out_complete_cb return, and wake() and sleep() return.
C40_NoDeadlock ==
    /\ []((screen_pc.main \in {"fade_in", "fade_out", "fade_out_clear"}
              /\ screen_pc.caller = "idle") => ScreenMutexFree)
    /\ (screen_pc.main # "idle") ~> (screen_pc.main = "idle")
    /\ (screen_pc.lvgl # "idle") ~> (screen_pc.lvgl = "idle")
    /\ (screen_pc.caller # "idle") ~> (screen_pc.caller = "idle")

\* tick waits for the LVGL lock while the touch callback, which holds it,
\* waits for the mutex that a caller of wake() holds
C40_Witness ==
    /\ screen_pc.main = "fade_out"
    /\ screen_pc.lvgl = "touch"
    /\ screen_pc.caller = "wake"


============================================================================
